---- MODULE Spec2Model ----
(***************************************************************************)
(* mem-kv-cpp: sharded key-value map with TTL, write-ahead journal with    *)
(* background flusher and online compaction, and write batcher.            *)
(*                                                                         *)
(* The specifications share the storage engine:                              *)
(*   SpecStore  worker threads call KVStore::execute directly              *)
(*              (Connection::handle without batcher)                       *)
(*   SpecTtl    one worker thread, SET with TTL clause, and the clock      *)
(*   Spec       worker threads route SET/DEL through WriteBatcher          *)
(*              (Connection::handle with batcher), timer thread, shutdown  *)
(*   FairSpec   Spec with every runnable thread scheduled                  *)
(*   SpecFail   SpecStore with the journal file failing to open, at start  *)
(*              and inside compact()                                       *)
(*   SpecMget   MGET next to writers                                       *)
(*   SpecReplay start on a journal file left by an earlier run             *)
(*   SpecMetrics GET and STATS in the steps a reader of the metrics can    *)
(*              tell apart                                                 *)
(*   SpecProto  Spec with the connections sending raw input, well-formed   *)
(*              or not                                                     *)
(*   SpecLocks  SET, DEL, GET, MGET, COMPACT and the flusher together      *)
(*   SpecWalk   SpecStore with the walk of a shard in two steps            *)
(*   SpecExpiry GET and MGET of entries with a deadline, and the clock     *)
(*   SpecDuring one compaction next to a writer                            *)
(*   SpecText   SET with the value as text, and the journal line parsed    *)
(*   SpecCounters GET in its steps next to MGET and SET                    *)
(*   SpecRestart SET with a deadline, GET, the clock, and the server       *)
(*              stopped and started again                                  *)
(*   SpecPool   the thread pool: accept loop, workers, destruction         *)
(*   FairPool   SpecPool with every runnable thread scheduled              *)
(*   SpecShutdown Spec without GET, with the journal flusher and ~Impl     *)
(*   FairShutdown SpecShutdown with every runnable thread scheduled        *)
(***************************************************************************)
EXTENDS Integers, Sequences, FiniteSets, TLC

(***************************************************************************)
(* Bounds of the model                                                     *)
(***************************************************************************)
\* number of shards walked by the model (the source has 16)
NUM_SHARDS == 2
\* commands a worker thread may receive in SpecStore, all threads together
MaxCalls == 3
\* clock: Tick advances now_ms by TickMs up to MaxTicks times
MaxTicks == 3
\* commands the connections may submit in Spec, all connections together
MaxWrites == 3
\* batch size that triggers a flush from the calling thread (the source has 50)
BATCH_SIZE_THRESHOLD == 3
\* lines of a journal file found at start
MaxLines == 3
\* samples the latency ring keeps (the source has 10000)
MAX_SAMPLES == 2
\* commands the connections may send in SpecMetrics, all together
MaxRequests == 4
\* samples a STATS snapshot needs for its percentiles to count (the claim
\* has 100)
MinSamples == 1

TickMs == 500
\* longest value text, in atoms (a word or one space)
MaxAtoms == 5
\* worker threads of the pool (the server's default is larger)
num_threads == 2
\* client sockets the accept loop hands to the pool
MaxSockets == 3

Keys == {"k1", "k2"}
\* the keys the connections of Spec use
BatchKeys == {"k1"}
\* the keys of the run with TTLs and the clock
TtlKeys == {"k1"}
\* a value is the sequence of its whitespace-separated tokens
Values == {<<"a">>, <<"b", "c">>}
TTLs == {0, 1, -1}

Conns == {"c1", "c2"}
Threads == Conns \cup {"bt", "sd", "jf"}
NoThread == "none"

Nil == <<"(nil)">>
OK == <<"OK">>

VARIABLES
    shards,         \* Impl::shards[i].data : key -> CacheEntry
    shard_mtx,      \* Impl::shards[i].mtx  : owner or NoThread
    journal_open,   \* journal_.is_open()
    journal_ino,    \* file the journal_ handle refers to
    journal_buf,    \* lines written to journal_ and not yet flushed
    journal_mtx,    \* Impl::journal_mtx_ : owner or NoThread
    is_compacting,  \* Impl::is_compacting_
    inodes,         \* file contents, by file
    path,           \* directory: "wal" (journal_path_) and "tmp" -> file or 0
    now_ms,         \* system_clock, in ms
    pc,             \* position of every thread
    cmd,            \* command a thread is executing
    ci,             \* compact(): loop variable i
    tmp_ino,        \* compact(): file behind temp_journal, 0 when closed
    tmp_buf,        \* compact(): lines written to temp_journal, not yet flushed
    resp,           \* last response sent on a connection
    calls,          \* commands received so far
    hist,           \* observations used by the properties
    current_batch,  \* WriteBatcher::current_batch_.commands
    batch_mtx,      \* WriteBatcher::batch_mtx_ : owner or NoThread
    running,        \* WriteBatcher::running_
    batch_to_flush, \* flush_to_store(): the local batch of every thread
    total_batches,          \* Metrics::total_batches
    total_batched_writes,   \* Metrics::total_batched_writes
    sub,            \* writes every connection has handed to add_to_batch
    applied,        \* the batched writes in the order execute() took them
    cur,            \* the batched write a draining thread is executing
    log,            \* per connection: its commands and responses, in order
    metrics,        \* Metrics::instance(): counters and latency_histogram
    mhist,          \* observations of the metrics used by the properties
    tasks,          \* ThreadPool::tasks_
    queue_mutex,    \* ThreadPool::queue_mutex_ : owner or NoThread
    stop,           \* ThreadPool::stop_
    waiters,        \* the threads blocked in condition_.wait
    wpc,            \* position of the pool's workers, the accept loop and
                    \* the thread that destroys the pool
    serving,        \* the socket handler_ is running on, by worker
    phist           \* observations of the pool used by the properties

storeVars == <<shards, shard_mtx, journal_open, journal_ino, journal_buf,
               journal_mtx, is_compacting, inodes, path, now_ms, pc, cmd, ci,
               tmp_ino, tmp_buf, resp, calls, hist>>

batchVars == <<current_batch, batch_mtx, running, batch_to_flush,
               total_batches, total_batched_writes, sub, applied, cur, log>>

metricVars == <<metrics, mhist>>

poolVars == <<tasks, queue_mutex, stop, waiters, wpc, serving, phist>>

vars == <<storeVars, batchVars, metricVars, poolVars>>

ShardIds == 0 .. (NUM_SHARDS - 1)
InoIds == 1 .. (2 + Cardinality(Conns))

(***************************************************************************)
(* Keys and shards                                                         *)
(***************************************************************************)
\* std::hash<std::string> is implementation defined; the model fixes one
KeyHash(k) == IF k = "k1" THEN 17 ELSE 34

get_shard_index(k) == KeyHash(k) % NUM_SHARDS

CacheEntry(v, e) == [value |-> v, expiry_at_ms |-> e]

\* is_expired with the comparison off by one: expired at the very millisecond
is_expired_at_deadline(entry, now) ==
    IF entry.expiry_at_ms = 0 THEN FALSE ELSE now >= entry.expiry_at_ms

is_expired(entry, now) ==
    IF entry.expiry_at_ms = 0 THEN FALSE ELSE now > entry.expiry_at_ms

\* a map with one more (or one overwritten) entry
Put(m, k, e) == [x \in (DOMAIN m) \cup {k} |-> IF x = k THEN e ELSE m[x]]
\* a map without k
Erase(m, k) == [x \in (DOMAIN m) \ {k} |-> m[x]]

EmptyMap == [x \in {} |-> CacheEntry(<<>>, 0)]

(***************************************************************************)
(* Commands and the text form shared by the wire and the journal           *)
(***************************************************************************)
SetCmd(k, v, t) == [type |-> "SET", key |-> k, value |-> v, ttl_seconds |-> t]
GetCmd(k) == [type |-> "GET", key |-> k, value |-> <<>>, ttl_seconds |-> 0]
DelCmd(k) == [type |-> "DEL", key |-> k, value |-> <<>>, ttl_seconds |-> 0]
CompactCmd == [type |-> "COMPACT", key |-> "", value |-> <<>>, ttl_seconds |-> 0]
UnknownCmd == [type |-> "UNKNOWN", key |-> "", value |-> <<>>, ttl_seconds |-> 0]
StatsVerb == [type |-> "STATS", key |-> "", value |-> <<>>, ttl_seconds |-> 0]
\* what the parser returns for MGET: the keys
MgetParsed(keys) ==
    [type |-> "MGET", key |-> "", value |-> <<>>, ttl_seconds |-> 0,
     keys |-> keys]
\* std::stoi found no number: std::invalid_argument leaves the parser
ThrowCmd == [type |-> "THROW", key |-> "", value |-> <<>>, ttl_seconds |-> 0]

SetCmds == {SetCmd(k, v, t) : k \in Keys, v \in Values, t \in TTLs}
GetCmds == {GetCmd(k) : k \in Keys}
DelCmds == {DelCmd(k) : k \in Keys}

IntRange == -9 .. 9
IsIntToken(s) == \E n \in IntRange : ToString(n) = s
stoi(s) == CHOOSE n \in IntRange : ToString(n) = s

\* the line set() appends to the journal
SetLine(k, v, t) ==
    <<"SET", k>> \o v \o (IF t > 0 THEN <<"EX", ToString(t)>> ELSE <<>>)

\* the line del() appends to the journal
DelLine(k) == <<"DEL", k>>

\* the line compact() writes for an entry: no TTL clause
SnapshotLine(k, entry) == <<"SET", k>> \o entry.value

\* Parser::parse_plain_text on a line given as its tokens
parse_plain_text(line) ==
    IF line = <<>> THEN UnknownCmd
    ELSE IF line[1] = "SET" THEN
        LET key == IF Len(line) >= 2 THEN line[2] ELSE ""
            parts == SubSeq(line, 3, Len(line))
            n == Len(parts)
        IN  IF n >= 3 /\ parts[n - 1] \in {"EX", "TTL"}
            THEN IF IsIntToken(parts[n])
                 THEN SetCmd(key, SubSeq(parts, 1, n - 2), stoi(parts[n]))
                 ELSE ThrowCmd
            ELSE SetCmd(key, parts, 0)
    ELSE IF line[1] = "GET" THEN GetCmd(IF Len(line) >= 2 THEN line[2] ELSE "")
    ELSE IF line[1] = "DEL" THEN DelCmd(IF Len(line) >= 2 THEN line[2] ELSE "")
    ELSE IF line[1] = "COMPACT" THEN CompactCmd
    ELSE IF line[1] = "STATS" THEN StatsVerb
    ELSE IF line[1] = "MGET" THEN MgetParsed(SubSeq(line, 2, Len(line)))
    ELSE UnknownCmd

\* ParsedCommand::valid as parse_plain_text leaves it: true by default,
\* false for an unknown verb and for MGET without keys
plain_valid(line) ==
    LET c == parse_plain_text(line)
    IN  /\ c.type # "UNKNOWN"
        /\ c.type = "MGET" => c.keys # <<>>

\* input on a connection: a line of text, given as its tokens
Plain(tokens) == [resp |-> FALSE, tokens |-> tokens]
\* or a RESP array: "*<array_len>", then the bulk strings name and args;
\* bulk: the line after the array header starts with '$'
RespFrame(n, bulk, name, args) ==
    [resp |-> TRUE, array_len |-> n, bulk |-> bulk, name |-> name,
     args |-> args]

Parsed(c, v) == [cmd |-> c, valid |-> v]

\* Parser::parse_resp on a frame whose bulk strings carry their true lengths
parse_resp(f) ==
    IF ~IsIntToken(f.array_len) THEN Parsed(ThrowCmd, FALSE)
    ELSE LET array_len == stoi(f.array_len)
         IN  IF array_len < 1 \/ ~f.bulk THEN Parsed(UnknownCmd, FALSE)
             ELSE IF f.name = "SET" /\ array_len >= 3
                  THEN Parsed(SetCmd(f.args[1], <<f.args[2]>>, 0), TRUE)
             ELSE IF f.name = "GET" /\ array_len >= 2
                  THEN Parsed(GetCmd(f.args[1]), TRUE)
             ELSE IF f.name = "DEL" /\ array_len >= 2
                  THEN Parsed(DelCmd(f.args[1]), TRUE)
             ELSE IF f.name = "COMPACT" /\ array_len = 1
                  THEN Parsed(CompactCmd, TRUE)
             ELSE IF f.name = "MGET" /\ array_len >= 2
                  THEN Parsed(MgetParsed(f.args), TRUE)
             ELSE Parsed(UnknownCmd, FALSE)

\* Parser::parse
parse(input) ==
    IF input.resp THEN parse_resp(input)
    ELSE Parsed(parse_plain_text(input.tokens), plain_valid(input.tokens))

\* load_from_disk: one line applied to a key -> entry map
ReplayLine(m, line, now) ==
    LET c == parse_plain_text(line)
    IN  IF line = <<>> THEN m
        ELSE IF c.type = "SET" THEN
            Put(m, c.key,
                CacheEntry(c.value,
                    IF c.ttl_seconds > 0 THEN now + c.ttl_seconds * 1000 ELSE 0))
        ELSE IF c.type = "DEL" THEN Erase(m, c.key)
        ELSE m

\* the loop of load_from_disk; an exception of the parser ends it
RECURSIVE ReplayFrom(_, _, _)
ReplayFrom(m, lines, now) ==
    IF lines = <<>> THEN m
    ELSE IF Head(lines) # <<>> /\ parse_plain_text(Head(lines)).type = "THROW" THEN m
    ELSE ReplayFrom(ReplayLine(m, Head(lines), now), Tail(lines), now)

\* load_from_disk on a file's lines, from the empty map
load_from_disk(lines, now) == ReplayFrom(EmptyMap, lines, now)

ValuesOf(m) == [k \in DOMAIN m |-> m[k].value]

\* the key -> entry map of all shards together
RECURSIVE MergeShards(_)
MergeShards(i) ==
    IF i = NUM_SHARDS THEN EmptyMap
    ELSE LET rest == MergeShards(i + 1)
         IN  [k \in (DOMAIN shards[i]) \cup (DOMAIN rest) |->
                  IF k \in DOMAIN shards[i] THEN shards[i][k] ELSE rest[k]]

Memory == MergeShards(0)

\* the same for a given array of shard maps
RECURSIVE MergeOf(_, _)
MergeOf(sh, i) ==
    IF i = NUM_SHARDS THEN EmptyMap
    ELSE LET rest == MergeOf(sh, i + 1)
         IN  [k \in (DOMAIN sh[i]) \cup (DOMAIN rest) |->
                  IF k \in DOMAIN sh[i] THEN sh[i][k] ELSE rest[k]]


(***************************************************************************)
(* Files: the journal at journal_path_ ("wal") and the compaction's temp   *)
(* file ("tmp").  A handle keeps its file when the path is renamed.        *)
(***************************************************************************)
Referenced(p, jo, ji, ti) ==
    ({p[x] : x \in DOMAIN p} \cup (IF jo THEN {ji} ELSE {})
        \cup {ti[t] : t \in DOMAIN ti}) \ {0}

\* a file nobody can reach any more is gone
Sweep(ino, p, jo, ji, ti) ==
    [i \in InoIds |-> IF i \in Referenced(p, jo, ji, ti) THEN ino[i] ELSE <<>>]

FreshIno ==
    CHOOSE i \in InoIds :
        /\ i \notin Referenced(path, journal_open, journal_ino, tmp_ino)
        /\ \A j \in InoIds :
               j \notin Referenced(path, journal_open, journal_ino, tmp_ino) => i <= j

\* write(2) of buf at offset 0 of a file opened without O_APPEND
WriteAt0(content, buf) == buf \o SubSeq(content, Len(buf) + 1, Len(content))

\* the journal file as a reader opening journal_path_ finds it
WalExists == path["wal"] # 0
WalLines == IF WalExists THEN inodes[path["wal"]] ELSE <<>>

(***************************************************************************)
(* Return from KVStore::execute to the caller                              *)
(***************************************************************************)
Drainers == {"bt", "sd"}

\* where a thread goes on after a call into the store returns
RetPc(t) == IF t \in Conns THEN "recv" ELSE "drain"

\* Connection::handle: send(response) of a command the store executed
Respond(t, r) ==
    /\ pc' = [pc EXCEPT ![t] = RetPc(t)]
    /\ resp' = IF t \in Conns THEN [resp EXCEPT ![t] = r] ELSE resp

NoId == [by |-> NoThread, n |-> 0]

NoLast == [isset |-> FALSE, value |-> <<>>, ttl |-> 0, at |-> 0]

\* the contents of the map that the mget calls in progress have lived
\* through, once the shard maps have become sh
SeenAfter(sh) ==
    [u \in Threads |-> IF pc[u] = "mget"
                       THEN hist.seen[u] \cup {ValuesOf(MergeOf(sh, 0))}
                       ELSE hist.seen[u]]

(***************************************************************************)
(* KVStore::Impl::set                                                      *)
(***************************************************************************)
\* an entry built without its value
SetEntryNoValue(c, now) ==
    CacheEntry(<<>>, IF c.ttl_seconds > 0 THEN now + c.ttl_seconds * 1000 ELSE 0)

\* the entry set() builds: the value, and a deadline only for a positive TTL
SetEntry(c, now) ==
    CacheEntry(c.value, IF c.ttl_seconds > 0 THEN now + c.ttl_seconds * 1000 ELSE 0)

\* set() giving the shard lock back before the journal append
set_lock_early_unlock(t, c) ==
    LET idx == get_shard_index(c.key)
        entry == SetEntry(c, now_ms)
    IN  /\ shard_mtx[idx] = NoThread
        /\ shards' = [shards EXCEPT ![idx] = Put(@, c.key, entry)]
        /\ hist' = [hist EXCEPT !.last[c.key] =
                        [isset |-> TRUE, value |-> c.value,
                         ttl |-> c.ttl_seconds, at |-> now_ms],
                                !.ttl = @ \/ c.ttl_seconds > 0,
                                !.seen = SeenAfter(shards')]
        /\ IF journal_open
           THEN /\ pc' = [pc EXCEPT ![t] = "set_append"]
                /\ cmd' = [cmd EXCEPT ![t] = c]
                /\ UNCHANGED <<resp, shard_mtx>>
           ELSE /\ Respond(t, OK)
                /\ UNCHANGED <<shard_mtx, cmd>>
        /\ UNCHANGED <<journal_open, journal_ino, journal_buf, journal_mtx,
                       is_compacting, inodes, path, now_ms, ci, tmp_ino, tmp_buf, poolVars>>

\* set() storing the entry only when the journal can take the record
set_lock_journal_only(t, c) ==
    LET idx == get_shard_index(c.key)
        entry == SetEntry(c, now_ms)
    IN  /\ shard_mtx[idx] = NoThread
        /\ shards' = IF journal_open
                     THEN [shards EXCEPT ![idx] = Put(@, c.key, entry)]
                     ELSE shards
        /\ hist' = [hist EXCEPT !.last[c.key] =
                        [isset |-> TRUE, value |-> c.value,
                         ttl |-> c.ttl_seconds, at |-> now_ms],
                                !.ttl = @ \/ c.ttl_seconds > 0,
                                !.seen = SeenAfter(shards')]
        /\ IF journal_open
           THEN /\ shard_mtx' = [shard_mtx EXCEPT ![idx] = t]
                /\ pc' = [pc EXCEPT ![t] = "set_append"]
                /\ cmd' = [cmd EXCEPT ![t] = c]
                /\ UNCHANGED resp
           ELSE /\ Respond(t, OK)
                /\ UNCHANGED <<shard_mtx, cmd>>
        /\ UNCHANGED <<journal_open, journal_ino, journal_buf, journal_mtx,
                       is_compacting, inodes, path, now_ms, ci, tmp_ino, tmp_buf, poolVars>>

\* lock the shard, store the entry, test journal_.is_open()
set_lock(t, c) ==
    LET idx == get_shard_index(c.key)
        entry == SetEntry(c, now_ms)
    IN  /\ shard_mtx[idx] = NoThread
        /\ shards' = [shards EXCEPT ![idx] = Put(@, c.key, entry)]
        /\ hist' = [hist EXCEPT !.last[c.key] =
                        [isset |-> TRUE, value |-> c.value,
                         ttl |-> c.ttl_seconds, at |-> now_ms],
                                !.ttl = @ \/ c.ttl_seconds > 0,
                                !.seen = SeenAfter(shards')]
        /\ IF journal_open
           THEN /\ shard_mtx' = [shard_mtx EXCEPT ![idx] = t]
                /\ pc' = [pc EXCEPT ![t] = "set_append"]
                /\ cmd' = [cmd EXCEPT ![t] = c]
                /\ UNCHANGED resp
           ELSE /\ Respond(t, OK)
                /\ UNCHANGED <<shard_mtx, cmd>>
        /\ UNCHANGED <<journal_open, journal_ino, journal_buf, journal_mtx,
                       is_compacting, inodes, path, now_ms, ci, tmp_ino, tmp_buf, poolVars>>

\* lock the journal, append the record, unlock both
set_append(t) ==
    LET c == cmd[t]
        idx == get_shard_index(c.key)
    IN  /\ pc[t] = "set_append"
        /\ journal_mtx = NoThread
        /\ journal_buf' = IF journal_open
                          THEN Append(journal_buf, SetLine(c.key, c.value, c.ttl_seconds))
                          ELSE journal_buf
        /\ shard_mtx' = [shard_mtx EXCEPT ![idx] = NoThread]
        /\ cmd' = [cmd EXCEPT ![t] = UnknownCmd]
        /\ Respond(t, OK)
        /\ UNCHANGED <<shards, journal_open, journal_ino, journal_mtx,
                       is_compacting, inodes, path, now_ms, ci, tmp_ino, tmp_buf,
                       hist, poolVars>>

(***************************************************************************)
(* KVStore::Impl::del                                                      *)
(***************************************************************************)
\* del() appending its record whether or not an entry existed
del_lock_always_append(t, c) ==
    LET idx == get_shard_index(c.key)
    IN  /\ shard_mtx[idx] = NoThread
        /\ shards' = [shards EXCEPT ![idx] = Erase(@, c.key)]
        /\ hist' = [hist EXCEPT !.last[c.key] = NoLast,
                                !.seen = SeenAfter(shards')]
        /\ IF journal_open
           THEN /\ shard_mtx' = [shard_mtx EXCEPT ![idx] = t]
                /\ pc' = [pc EXCEPT ![t] = "del_append"]
                /\ cmd' = [cmd EXCEPT ![t] = c]
                /\ UNCHANGED resp
           ELSE /\ Respond(t, OK)
                /\ UNCHANGED <<shard_mtx, cmd>>
        /\ UNCHANGED <<journal_open, journal_ino, journal_buf, journal_mtx,
                       is_compacting, inodes, path, now_ms, ci, tmp_ino, tmp_buf, poolVars>>

\* lock the shard, erase the key, test journal_.is_open() && existed
del_lock(t, c) ==
    LET idx == get_shard_index(c.key)
        existed == c.key \in DOMAIN shards[idx]
    IN  /\ shard_mtx[idx] = NoThread
        /\ shards' = [shards EXCEPT ![idx] = Erase(@, c.key)]
        /\ hist' = [hist EXCEPT !.last[c.key] = NoLast,
                                !.seen = SeenAfter(shards')]
        /\ IF journal_open /\ existed
           THEN /\ shard_mtx' = [shard_mtx EXCEPT ![idx] = t]
                /\ pc' = [pc EXCEPT ![t] = "del_append"]
                /\ cmd' = [cmd EXCEPT ![t] = c]
                /\ UNCHANGED resp
           ELSE /\ Respond(t, OK)
                /\ UNCHANGED <<shard_mtx, cmd>>
        /\ UNCHANGED <<journal_open, journal_ino, journal_buf, journal_mtx,
                       is_compacting, inodes, path, now_ms, ci, tmp_ino, tmp_buf, poolVars>>

del_append(t) ==
    LET c == cmd[t]
        idx == get_shard_index(c.key)
    IN  /\ pc[t] = "del_append"
        /\ journal_mtx = NoThread
        /\ journal_buf' = IF journal_open
                          THEN Append(journal_buf, DelLine(c.key))
                          ELSE journal_buf
        /\ shard_mtx' = [shard_mtx EXCEPT ![idx] = NoThread]
        /\ cmd' = [cmd EXCEPT ![t] = UnknownCmd]
        /\ Respond(t, OK)
        /\ UNCHANGED <<shards, journal_open, journal_ino, journal_mtx,
                       is_compacting, inodes, path, now_ms, ci, tmp_ino, tmp_buf,
                       hist, poolVars>>

(***************************************************************************)
(* Metrics and LatencyHistogram                                            *)
(***************************************************************************)
\* the counters at zero, no sample; buckets: <1ms, <5ms, <10ms, <50ms,
\* <100ms, >=100ms
NoMetrics ==
    [cache_hits |-> 0, cache_misses |-> 0, total_requests |-> 0,
     total_latency_us |-> 0, buckets |-> <<0, 0, 0, 0, 0, 0>>,
     latency_samples |-> <<>>]

\* the if chain with <= for <: a duration on a bound falls in the lower bucket
BucketOfInclusive(micros) ==
    LET millis == micros \div 1000
    IN  IF millis <= 1 THEN 1
        ELSE IF millis <= 5 THEN 2
        ELSE IF millis <= 10 THEN 3
        ELSE IF millis <= 50 THEN 4
        ELSE IF millis <= 100 THEN 5
        ELSE 6

\* LatencyHistogram::record, the if chain: the bucket of a duration
BucketOf(micros) ==
    LET millis == micros \div 1000
    IN  IF millis < 1 THEN 1
        ELSE IF millis < 5 THEN 2
        ELSE IF millis < 10 THEN 3
        ELSE IF millis < 50 THEN 4
        ELSE IF millis < 100 THEN 5
        ELSE 6

\* LatencyHistogram::record, first half: one bucket counter incremented
bucket_inc(m, micros) == [m EXCEPT !.buckets[BucketOf(micros)] = @ + 1]

\* the sample ring dropping the newest sample when it is full
PushDropNewest(samples, micros) ==
    IF Len(samples) >= MAX_SAMPLES THEN samples ELSE Append(samples, micros)

\* LatencyHistogram::record, the locked block: push_back, then erase(begin())
\* when the vector has grown past MAX_SAMPLES
PushSample(samples, micros) ==
    LET s == Append(samples, micros)
    IN  IF Len(s) > MAX_SAMPLES THEN Tail(s) ELSE s

sample_push(m, micros) ==
    [m EXCEPT !.latency_samples = PushSample(@, micros)]

\* LatencyHistogram::record
record(m, micros) == sample_push(bucket_inc(m, micros), micros)

\* Metrics::record_latency, first statement
latency_add(m, micros) == [m EXCEPT !.total_latency_us = @ + micros]

\* Metrics::record_latency
record_latency(m, micros) == record(latency_add(m, micros), micros)

\* std::sort of a vector of numbers
RECURSIVE Insert(_, _)
Insert(sorted, x) ==
    IF sorted = <<>> THEN <<x>>
    ELSE IF x <= Head(sorted) THEN <<x>> \o sorted
    ELSE <<Head(sorted)>> \o Insert(Tail(sorted), x)

RECURSIVE Sort(_)
Sort(s) == IF s = <<>> THEN <<>> ELSE Insert(Sort(Tail(s)), Head(s))

\* LatencyHistogram::percentile(p / 100.0) of the samples; vectors count
\* from 0, sequences from 1
percentile(samples, p) ==
    IF samples = <<>> THEN 0
    ELSE LET sorted == Sort(samples)
             index == (p * Len(sorted)) \div 100
         IN  sorted[(IF index >= Len(sorted) THEN Len(sorted) - 1 ELSE index) + 1]

\* get() counting only the hits
count_result_hits_only(m, hit) ==
    IF hit THEN [m EXCEPT !.cache_hits = @ + 1] ELSE m

\* get(): total_requests++, then cache_hits++ or cache_misses++
count_request(m) == [m EXCEPT !.total_requests = @ + 1]
count_result(m, hit) ==
    IF hit THEN [m EXCEPT !.cache_hits = @ + 1]
    ELSE [m EXCEPT !.cache_misses = @ + 1]

\* the duration get and mget measure in the runs without STATS
FastDurations == {0}

\* no STATS snapshot taken yet
NoSnap ==
    [valid |-> FALSE, p50 |-> 0, p95 |-> 0, p99 |-> 0, n |-> 0,
     buckets |-> <<>>, done0 |-> 0, done1 |-> 0, started1 |-> 0]

\* in NoSnap and the snapshots: n is the ring size when p50 was taken,
\* done0 / done1 the calls returned when to_json began / ended, started1 the
\* calls begun when it ended
\* started, done: record_latency calls begun and returned; pushed: every
\* sample in the order of the push_back calls; last, prev: the two latest
\* STATS snapshots of every connection
NoMhist ==
    [started |-> 0, done |-> 0, pushed |-> <<>>,
     last |-> [t \in Conns |-> NoSnap], prev |-> [t \in Conns |-> NoSnap]]

(***************************************************************************)
(* KVStore::Impl::get                                                      *)
(***************************************************************************)
\* what get returns for key k of map m at time now
GetResult(m, k, now) ==
    IF k \notin DOMAIN m THEN Nil
    ELSE IF is_expired(m[k], now) THEN Nil
    ELSE m[k].value

\* get counts a hit when the key is present and not expired
GetHit(m, k, now) == k \in DOMAIN m /\ ~is_expired(m[k], now)

\* a read that leaves an expired entry where it is
GetEffectKeep(m, k, now) == m

\* the map get leaves behind: an expired entry is erased
GetEffect(m, k, now) ==
    IF k \in DOMAIN m /\ is_expired(m[k], now) THEN Erase(m, k) ELSE m

get(t, c) ==
    LET idx == get_shard_index(c.key)
        r == GetResult(shards[idx], c.key, now_ms)
    IN  /\ shard_mtx[idx] = NoThread
        /\ shards' = [shards EXCEPT ![idx] = GetEffect(@, c.key, now_ms)]
        /\ hist' = [hist EXCEPT !.get =
                        [key |-> c.key, res |-> r, at |-> now_ms, by |-> t,
                         last |-> hist.last[c.key]]]
        /\ \E us \in FastDurations :
               metrics' = record_latency(
                              count_result(count_request(metrics),
                                  GetHit(shards[idx], c.key, now_ms)), us)
        /\ Respond(t, r)
        /\ UNCHANGED <<shard_mtx, journal_open, journal_ino, journal_buf,
                       journal_mtx, is_compacting, inodes, path, now_ms, cmd, ci,
                       tmp_ino, tmp_buf, mhist, poolVars>>


(***************************************************************************)
(* KVStore::Impl::mget                                                     *)
(***************************************************************************)
\* shard_order: the shards of the keys from position i on, each once, in
\* the order of first appearance, after the shards in acc
RECURSIVE shard_order(_, _, _)
shard_order(keys, i, acc) ==
    IF i > Len(keys) THEN acc
    ELSE LET idx == get_shard_index(keys[i])
         IN  shard_order(keys, i + 1,
                 IF \E j \in DOMAIN acc : acc[j] = idx THEN acc
                 ELSE Append(acc, idx))

\* shard_to_indices[idx]: the positions from i on whose key lives in shard idx
RECURSIVE shard_to_indices(_, _, _)
shard_to_indices(keys, idx, i) ==
    IF i > Len(keys) THEN <<>>
    ELSE (IF get_shard_index(keys[i]) = idx THEN <<i>> ELSE <<>>)
             \o shard_to_indices(keys, idx, i + 1)

\* the inner loop: the positions idxs looked up in shard map m, one after
\* the other, an expired entry erased when it is met
RECURSIVE MgetShard(_, _, _, _, _)
MgetShard(m, keys, idxs, results, now) ==
    IF idxs = <<>> THEN [map |-> m, results |-> results]
    ELSE LET i == Head(idxs)
         IN  MgetShard(GetEffect(m, keys[i], now), keys, Tail(idxs),
                       [results EXCEPT ![i] = GetResult(m, keys[i], now)], now)

\* the MGET response: the results joined by spaces
RECURSIVE JoinResults(_)
JoinResults(results) ==
    IF results = <<>> THEN <<>> ELSE Head(results) \o JoinResults(Tail(results))

MgetCmd(keys) ==
    [type |-> "MGET", key |-> "", value |-> <<>>, ttl_seconds |-> 0,
     keys |-> keys, results |-> [i \in DOMAIN keys |-> <<>>],
     order |-> shard_order(keys, 1, <<>>)]

\* group the keys by shard; results.resize(keys.size())
mget_begin(t, keys) ==
    /\ cmd' = [cmd EXCEPT ![t] = MgetCmd(keys)]
    /\ ci' = [ci EXCEPT ![t] = 1]
    /\ pc' = [pc EXCEPT ![t] = "mget"]
    /\ hist' = [hist EXCEPT !.seen[t] = {ValuesOf(Memory)}]
    /\ UNCHANGED <<shards, shard_mtx, journal_open, journal_ino, journal_buf,
                   journal_mtx, is_compacting, inodes, path, now_ms, tmp_ino,
                   tmp_buf, resp, poolVars>>

\* mget keeping every shard lock it has taken until it returns
mget_shard_keep_locks(t) ==
    LET c == cmd[t]
        idx == c.order[ci[t]]
        r == MgetShard(shards[idx], c.keys,
                       shard_to_indices(c.keys, idx, 1), c.results, now_ms)
        last == ci[t] = Len(c.order)
    IN  /\ pc[t] = "mget"
        /\ shard_mtx[idx] = NoThread
        /\ shards' = [shards EXCEPT ![idx] = r.map]
        /\ ci' = [ci EXCEPT ![t] = IF last THEN 0 ELSE @ + 1]
        /\ shard_mtx' = IF last
                        THEN [i \in ShardIds |->
                                 IF shard_mtx[i] = t THEN NoThread ELSE shard_mtx[i]]
                        ELSE [shard_mtx EXCEPT ![idx] = t]
        /\ IF last
           THEN /\ cmd' = [cmd EXCEPT ![t] = UnknownCmd]
                /\ hist' = [hist EXCEPT !.mget =
                                [keys |-> c.keys, res |-> r.results, by |-> t,
                                 seen |-> hist.seen[t]]]
                /\ Respond(t, JoinResults(r.results))
           ELSE /\ cmd' = [cmd EXCEPT ![t].results = r.results]
                /\ UNCHANGED <<hist, pc, resp>>
        /\ IF last
           THEN \E us \in FastDurations :
                    metrics' = record_latency(metrics, us)
           ELSE UNCHANGED metrics
        /\ UNCHANGED <<journal_open, journal_ino, journal_buf,
                       journal_mtx, is_compacting, inodes, path, now_ms,
                       tmp_ino, tmp_buf, mhist, poolVars>>

\* one iteration of the loop over shard_order, under that shard's lock; the
\* call returns after the last one
mget_shard(t) ==
    LET c == cmd[t]
        idx == c.order[ci[t]]
        r == MgetShard(shards[idx], c.keys,
                       shard_to_indices(c.keys, idx, 1), c.results, now_ms)
        last == ci[t] = Len(c.order)
    IN  /\ pc[t] = "mget"
        /\ shard_mtx[idx] = NoThread
        /\ shards' = [shards EXCEPT ![idx] = r.map]
        /\ ci' = [ci EXCEPT ![t] = IF last THEN 0 ELSE @ + 1]
        /\ IF last
           THEN /\ cmd' = [cmd EXCEPT ![t] = UnknownCmd]
                /\ hist' = [hist EXCEPT !.mget =
                                [keys |-> c.keys, res |-> r.results, by |-> t,
                                 seen |-> hist.seen[t]]]
                /\ Respond(t, JoinResults(r.results))
           ELSE /\ cmd' = [cmd EXCEPT ![t].results = r.results]
                /\ UNCHANGED <<hist, pc, resp>>
        /\ IF last
           THEN \E us \in FastDurations :
                    metrics' = record_latency(metrics, us)
           ELSE UNCHANGED metrics
        /\ UNCHANGED <<shard_mtx, journal_open, journal_ino, journal_buf,
                       journal_mtx, is_compacting, inodes, path, now_ms,
                       tmp_ino, tmp_buf, mhist, poolVars>>

(***************************************************************************)
(* KVStore::Impl::compact                                                  *)
(***************************************************************************)
\* the orders in which an unordered_map may hand out the keys of S
Orders(S) ==
    {f \in [1 .. Cardinality(S) -> S] : \A x \in S : \E i \in DOMAIN f : f[i] = x}

\* a walk that writes every entry, expired or not
LiveOrExpired(m, now) == DOMAIN m

\* the entries of shard map m that compact() writes at time now
Live(m, now) == {k \in DOMAIN m : ~is_expired(m[k], now)}

\* is_compacting_ = true; open <journal_path_>.tmp with ios::trunc
compact_open(t) ==
    LET ino == IF path["tmp"] # 0 THEN path["tmp"] ELSE FreshIno
    IN  /\ is_compacting' = TRUE
        /\ path' = [path EXCEPT !["tmp"] = ino]
        /\ inodes' = [inodes EXCEPT ![ino] = <<>>]
        /\ tmp_ino' = [tmp_ino EXCEPT ![t] = ino]
        /\ tmp_buf' = [tmp_buf EXCEPT ![t] = <<>>]
        /\ ci' = [ci EXCEPT ![t] = 0]
        /\ hist' = [hist EXCEPT !.snap[t] = [x \in {} |-> <<>>],
                                !.pre[t] = WalLines,
                                !.snaplines[t] = <<>>,
                                !.snapdone[t] = FALSE,
                                !.rfail[t] = FALSE,
                                !.compacted = TRUE]
        /\ pc' = [pc EXCEPT ![t] = "c_walk"]
        /\ UNCHANGED <<shards, shard_mtx, journal_open, journal_ino,
                       journal_buf, journal_mtx, now_ms, cmd, resp, poolVars>>

\* one iteration of the loop over the shards, under that shard's lock
compact_walk(t) ==
    LET i == ci[t]
        live == Live(shards[i], now_ms)
    IN  /\ pc[t] = "c_walk"
        /\ shard_mtx[i] = NoThread
        /\ \E order \in Orders(live) :
               tmp_buf' = [tmp_buf EXCEPT ![t] =
                   @ \o [n \in DOMAIN order |->
                            SnapshotLine(order[n], shards[i][order[n]])]]
        /\ hist' = [hist EXCEPT !.snap[t] =
                [k \in (DOMAIN @) \cup live |->
                    IF k \in live THEN shards[i][k].value ELSE @[k]]]
        /\ ci' = [ci EXCEPT ![t] = i + 1]
        /\ pc' = [pc EXCEPT ![t] = IF i + 1 = NUM_SHARDS THEN "c_close" ELSE "c_walk"]
        /\ UNCHANGED <<shards, shard_mtx, journal_open, journal_ino,
                       journal_buf, journal_mtx, is_compacting, inodes, path,
                       now_ms, cmd, tmp_ino, resp, poolVars>>

\* temp_journal.close(): the buffered lines reach the file
compact_close(t) ==
    /\ pc[t] = "c_close"
    /\ inodes' = Sweep([inodes EXCEPT ![tmp_ino[t]] = WriteAt0(@, tmp_buf[t])],
                       path, journal_open, journal_ino,
                       [tmp_ino EXCEPT ![t] = 0])
    /\ tmp_ino' = [tmp_ino EXCEPT ![t] = 0]
    /\ tmp_buf' = [tmp_buf EXCEPT ![t] = <<>>]
    /\ hist' = [hist EXCEPT !.snaplines[t] = tmp_buf[t], !.snapdone[t] = TRUE]
    /\ pc' = [pc EXCEPT ![t] = "c_swap"]
    /\ UNCHANGED <<shards, shard_mtx, journal_open, journal_ino, journal_buf,
                   journal_mtx, is_compacting, path, now_ms, cmd, ci, resp, poolVars>>

\* lock journal_mtx_; journal_.close() writes out what is buffered
compact_swap(t) ==
    /\ pc[t] = "c_swap"
    /\ journal_mtx = NoThread
    /\ journal_mtx' = t
    /\ journal_open' = FALSE
    /\ journal_buf' = <<>>
    /\ inodes' = Sweep(IF journal_open
                       THEN [inodes EXCEPT ![journal_ino] = @ \o journal_buf]
                       ELSE inodes,
                       path, FALSE, journal_ino, tmp_ino)
    /\ pc' = [pc EXCEPT ![t] = "c_rename"]
    /\ UNCHANGED <<shards, shard_mtx, journal_ino, is_compacting, path, now_ms,
                   cmd, ci, tmp_ino, tmp_buf, resp, hist, poolVars>>

\* std::rename(temp, journal_path_); it fails when there is no temp file
compact_rename(t) ==
    /\ pc[t] = "c_rename"
    /\ path' = IF path["tmp"] # 0
               THEN [path EXCEPT !["wal"] = path["tmp"], !["tmp"] = 0]
               ELSE path
    /\ inodes' = Sweep(inodes, path', journal_open, journal_ino, tmp_ino)
    /\ hist' = [hist EXCEPT !.rfail[t] = (path["tmp"] = 0)]
    /\ pc' = [pc EXCEPT ![t] = "c_reopen"]
    /\ UNCHANGED <<shards, shard_mtx, journal_open, journal_ino, journal_buf,
                   journal_mtx, is_compacting, now_ms, cmd, ci, tmp_ino,
                   tmp_buf, resp, poolVars>>

\* journal_.open(journal_path_, ios::app); unlock journal_mtx_
compact_reopen(t) ==
    LET ino == IF path["wal"] # 0 THEN path["wal"] ELSE FreshIno
    IN  /\ pc[t] = "c_reopen"
        /\ path' = [path EXCEPT !["wal"] = ino]
        /\ journal_ino' = ino
        /\ journal_open' = TRUE
        /\ journal_buf' = <<>>
        /\ journal_mtx' = NoThread
        /\ pc' = [pc EXCEPT ![t] = "c_end"]
        /\ UNCHANGED <<shards, shard_mtx, is_compacting, inodes, now_ms, cmd,
                       ci, tmp_ino, tmp_buf, resp, hist, poolVars>>

\* is_compacting_ = false; execute returns "OK"
compact_end(t) ==
    /\ pc[t] = "c_end"
    /\ is_compacting' = FALSE
    /\ Respond(t, OK)
    /\ UNCHANGED <<shards, shard_mtx, journal_open, journal_ino, journal_buf,
                   journal_mtx, inodes, path, now_ms, cmd, ci, tmp_ino, tmp_buf,
                   hist, poolVars>>

(***************************************************************************)
(* KVStore::Impl::compact when the file system refuses an operation        *)
(***************************************************************************)
\* is_compacting_ = true; the temp file cannot be opened (nothing is
\* created or truncated)
compact_open_fail(t) ==
    /\ is_compacting' = TRUE
    /\ pc' = [pc EXCEPT ![t] = "c_openfail"]
    /\ UNCHANGED <<shards, shard_mtx, journal_open, journal_ino, journal_buf,
                   journal_mtx, inodes, path, now_ms, cmd, ci, tmp_ino, tmp_buf,
                   resp, hist, poolVars>>

\* the early return that leaves the flag set
compact_open_fail_keep_flag(t) ==
    /\ pc[t] = "c_openfail"
    /\ Respond(t, OK)
    /\ UNCHANGED <<shards, shard_mtx, journal_open, journal_ino, journal_buf,
                   journal_mtx, is_compacting, inodes, path, now_ms, cmd, ci,
                   tmp_ino, tmp_buf, hist, poolVars>>

\* the warning, is_compacting_ = false; return; execute answers "OK"
compact_open_fail_return(t) ==
    /\ pc[t] = "c_openfail"
    /\ is_compacting' = FALSE
    /\ Respond(t, OK)
    /\ UNCHANGED <<shards, shard_mtx, journal_open, journal_ino, journal_buf,
                   journal_mtx, inodes, path, now_ms, cmd, ci, tmp_ino, tmp_buf,
                   hist, poolVars>>

\* std::rename returns non-zero although the temp file is there: both paths
\* keep their files
compact_rename_fail(t) ==
    /\ pc[t] = "c_rename"
    /\ path["tmp"] # 0
    /\ hist' = [hist EXCEPT !.rfail[t] = TRUE]
    /\ pc' = [pc EXCEPT ![t] = "c_reopen"]
    /\ UNCHANGED <<shards, shard_mtx, journal_open, journal_ino, journal_buf,
                   journal_mtx, is_compacting, inodes, path, now_ms, cmd, ci,
                   tmp_ino, tmp_buf, resp, poolVars>>

\* journal_.open(journal_path_, ios::app) fails: the warning, the stream
\* stays closed; unlock journal_mtx_
compact_reopen_fail(t) ==
    /\ pc[t] = "c_reopen"
    /\ journal_mtx' = NoThread
    /\ pc' = [pc EXCEPT ![t] = "c_end"]
    /\ UNCHANGED <<shards, shard_mtx, journal_open, journal_ino, journal_buf,
                   is_compacting, inodes, path, now_ms, cmd, ci, tmp_ino,
                   tmp_buf, resp, hist, poolVars>>

(***************************************************************************)
(* Impl::flusher_thread_                                                   *)
(***************************************************************************)
\* after the sleep: if (is_compacting_) continue;
flusher_check ==
    /\ pc["jf"] = "jf_sleep"
    /\ ~is_compacting
    /\ pc' = [pc EXCEPT !["jf"] = "jf_lock"]
    /\ UNCHANGED <<shards, shard_mtx, journal_open, journal_ino, journal_buf,
                   journal_mtx, is_compacting, inodes, path, now_ms, cmd, ci,
                   tmp_ino, tmp_buf, resp, hist, poolVars>>

\* lock journal_mtx_; if (journal_.is_open()) journal_.flush();
flusher_flush ==
    /\ pc["jf"] = "jf_lock"
    /\ journal_mtx = NoThread
    /\ inodes' = IF journal_open
                 THEN [inodes EXCEPT ![journal_ino] = @ \o journal_buf]
                 ELSE inodes
    /\ journal_buf' = IF journal_open THEN <<>> ELSE journal_buf
    /\ pc' = [pc EXCEPT !["jf"] = "jf_sleep"]
    /\ UNCHANGED <<shards, shard_mtx, journal_open, journal_ino, journal_mtx,
                   is_compacting, path, now_ms, cmd, ci, tmp_ino, tmp_buf, resp,
                   hist, poolVars>>

\* the wall clock advances
Tick ==
    /\ now_ms < MaxTicks * TickMs
    /\ now_ms' = now_ms + TickMs
    /\ UNCHANGED <<shards, shard_mtx, journal_open, journal_ino, journal_buf,
                   journal_mtx, is_compacting, inodes, path, pc, cmd, ci,
                   tmp_ino, tmp_buf, resp, hist, poolVars>>

(***************************************************************************)
(* Connection::handle, every command executed by the store                 *)
(***************************************************************************)
HandleSet(t, keys, ttls) ==
    /\ pc[t] = "recv" /\ calls < MaxCalls /\ calls' = calls + 1
    /\ UNCHANGED <<batchVars, metricVars>>
    /\ \E c \in SetCmds :
           c.key \in keys /\ c.ttl_seconds \in ttls /\ set_lock(t, c)

HandleDel(t, keys) ==
    /\ pc[t] = "recv" /\ calls < MaxCalls /\ calls' = calls + 1
    /\ UNCHANGED <<batchVars, metricVars>>
    /\ \E c \in DelCmds : c.key \in keys /\ del_lock(t, c)

HandleGet(t, keys) ==
    /\ pc[t] = "recv" /\ calls < MaxCalls /\ calls' = calls + 1
    /\ UNCHANGED batchVars
    /\ \E c \in GetCmds : c.key \in keys /\ get(t, c)

HandleCompact(t) ==
    /\ pc[t] = "recv" /\ calls < MaxCalls /\ calls' = calls + 1
    /\ UNCHANGED <<batchVars, metricVars>>
    /\ compact_open(t)

(***************************************************************************)
(* ThreadPool                                                              *)
(***************************************************************************)
\* workers_: num_threads threads; the thread in Server::run; the thread
\* that destroys the pool
WorkerNames == <<"w1", "w2", "w3", "w4">>
Workers == {WorkerNames[i] : i \in 1 .. num_threads}
Acceptor == "acc"
Owner == "main"
PoolThreads == Workers \cup {Acceptor, Owner}

InitPool ==
    /\ tasks = <<>>
    /\ queue_mutex = NoThread
    /\ stop = FALSE
    /\ waiters = {}
    /\ wpc = [t \in PoolThreads |->
                 IF t \in Workers THEN "w_lock"
                 ELSE IF t = Acceptor THEN "accept" ELSE "run"]
    /\ serving = [w \in Workers |-> 0]
    /\ phist = [offered |-> 0, pushed |-> <<>>, popped |-> <<>>,
                handled |-> 0]

\* worker_loop: std::unique_lock lock(queue_mutex_), at the top of the loop
\* or when condition_.wait wakes up
worker_lock(w) ==
    /\ wpc[w] = "w_lock"
    /\ queue_mutex = NoThread
    /\ queue_mutex' = w
    /\ wpc' = [wpc EXCEPT ![w] = "w_locked"]
    /\ UNCHANGED <<tasks, stop, waiters, serving, phist, storeVars,
                   batchVars, metricVars>>

\* condition_.wait: the predicate is false; release the lock and block
worker_wait(w) ==
    /\ wpc[w] = "w_locked"
    /\ ~(stop \/ tasks # <<>>)
    /\ queue_mutex' = NoThread
    /\ waiters' = waiters \cup {w}
    /\ wpc' = [wpc EXCEPT ![w] = "w_wait"]
    /\ UNCHANGED <<tasks, stop, serving, phist, storeVars, batchVars,
                   metricVars>>

\* condition_.wait may wake up without a notification
wait_spurious(w) ==
    /\ w \in waiters
    /\ waiters' = waiters \ {w}
    /\ wpc' = [wpc EXCEPT ![w] = "w_lock"]
    /\ UNCHANGED <<tasks, queue_mutex, stop, serving, phist, storeVars,
                   batchVars, metricVars>>

\* if (stop_ && tasks_.empty()) return;
worker_return(w) ==
    /\ wpc[w] = "w_locked"
    /\ stop /\ tasks = <<>>
    /\ queue_mutex' = NoThread
    /\ wpc' = [wpc EXCEPT ![w] = "w_exit"]
    /\ UNCHANGED <<tasks, stop, waiters, serving, phist, storeVars,
                   batchVars, metricVars>>

\* the socket a pop takes from the queue, and the queue it leaves
TaskOf(q) == Head(q)
PopOf(q) == Tail(q)

\* socket = tasks_.front(); tasks_.pop(); the lock is released and
\* handler_(socket) begins
worker_pop(w) ==
    /\ wpc[w] = "w_locked"
    /\ tasks # <<>>
    /\ serving' = [serving EXCEPT ![w] = TaskOf(tasks)]
    /\ tasks' = PopOf(tasks)
    /\ phist' = [phist EXCEPT !.popped =
                     Append(@, [socket |-> TaskOf(tasks), by |-> w])]
    /\ queue_mutex' = NoThread
    /\ wpc' = [wpc EXCEPT ![w] = "w_handle"]
    /\ UNCHANGED <<stop, waiters, storeVars, batchVars, metricVars>>

\* handler_(socket) returns: the client has gone
worker_handled(w) ==
    /\ wpc[w] = "w_handle"
    /\ serving' = [serving EXCEPT ![w] = 0]
    /\ phist' = [phist EXCEPT !.handled = @ + 1]
    /\ wpc' = [wpc EXCEPT ![w] = "w_lock"]
    /\ UNCHANGED <<tasks, queue_mutex, stop, waiters, storeVars, batchVars,
                   metricVars>>

\* enqueue, the locked block: return when stop_ is set, else push
enqueue_push ==
    /\ wpc[Acceptor] = "accept"
    /\ phist.offered < MaxSockets
    /\ queue_mutex = NoThread
    /\ IF stop
       THEN /\ phist' = [phist EXCEPT !.offered = @ + 1]
            /\ UNCHANGED <<tasks, wpc>>
       ELSE /\ tasks' = Append(tasks, phist.offered + 1)
            /\ phist' = [phist EXCEPT !.offered = @ + 1,
                                      !.pushed = Append(@, phist.offered + 1)]
            /\ wpc' = [wpc EXCEPT ![Acceptor] = "notify"]
    /\ UNCHANGED <<queue_mutex, stop, waiters, serving, storeVars, batchVars,
                   metricVars>>

\* enqueue returning without condition_.notify_one()
enqueue_no_notify ==
    /\ wpc[Acceptor] = "notify"
    /\ wpc' = [wpc EXCEPT ![Acceptor] = "accept"]
    /\ UNCHANGED <<tasks, queue_mutex, stop, waiters, serving, phist,
                   storeVars, batchVars, metricVars>>

\* condition_.notify_one(): one of the blocked threads, if any, wakes up
enqueue_notify ==
    /\ wpc[Acceptor] = "notify"
    /\ IF waiters = {}
       THEN /\ wpc' = [wpc EXCEPT ![Acceptor] = "accept"]
            /\ UNCHANGED waiters
       ELSE \E w \in waiters :
                /\ waiters' = waiters \ {w}
                /\ wpc' = [wpc EXCEPT ![Acceptor] = "accept", ![w] = "w_lock"]
    /\ UNCHANGED <<tasks, queue_mutex, stop, serving, phist, storeVars,
                   batchVars, metricVars>>

\* ~ThreadPool, the locked block: stop_ = true
pool_stop ==
    /\ wpc[Owner] = "run"
    /\ queue_mutex = NoThread
    /\ stop' = TRUE
    /\ wpc' = [wpc EXCEPT ![Owner] = "notify_all"]
    /\ UNCHANGED <<tasks, queue_mutex, waiters, serving, phist, storeVars,
                   batchVars, metricVars>>

\* ~ThreadPool: condition_.notify_all()
pool_notify_all ==
    /\ wpc[Owner] = "notify_all"
    /\ waiters' = {}
    /\ wpc' = [t \in PoolThreads |->
                  IF t \in waiters THEN "w_lock"
                  ELSE IF t = Owner THEN "join" ELSE wpc[t]]
    /\ UNCHANGED <<tasks, queue_mutex, stop, serving, phist, storeVars,
                   batchVars, metricVars>>

\* ~ThreadPool: worker.join() for every worker
pool_join ==
    /\ wpc[Owner] = "join"
    /\ \A w \in Workers : wpc[w] = "w_exit"
    /\ wpc' = [wpc EXCEPT ![Owner] = "done"]
    /\ UNCHANGED <<tasks, queue_mutex, stop, waiters, serving, phist,
                   storeVars, batchVars, metricVars>>

\* the state with the journal file holding lines; jo: journal_.open
\* succeeded; bt, jf: where the two background threads are
InitBase(bt, jf, jo, lines) ==
    /\ shards = [i \in ShardIds |-> EmptyMap]
    /\ shard_mtx = [i \in ShardIds |-> NoThread]
    /\ journal_open = jo
    /\ journal_ino = 1
    /\ journal_buf = <<>>
    /\ journal_mtx = NoThread
    /\ is_compacting = FALSE
    /\ inodes = [i \in InoIds |-> IF i = 1 THEN lines ELSE <<>>]
    /\ path = [wal |-> 1, tmp |-> 0]
    /\ now_ms = 0
    /\ pc = [t \in Threads |-> IF t \in Conns THEN "recv"
                               ELSE IF t = "jf" THEN jf
                               ELSE IF t = "bt" THEN bt ELSE "off"]
    /\ cmd = [t \in Threads |-> UnknownCmd]
    /\ ci = [t \in Threads |-> 0]
    /\ tmp_ino = [t \in Threads |-> 0]
    /\ tmp_buf = [t \in Threads |-> <<>>]
    /\ resp = [t \in Conns |-> <<>>]
    /\ calls = 0
    /\ current_batch = <<>>
    /\ batch_mtx = NoThread
    /\ running = TRUE
    /\ batch_to_flush = [t \in Threads |-> <<>>]
    /\ total_batches = 0
    /\ total_batched_writes = 0
    /\ sub = [t \in Conns |-> 0]
    /\ applied = <<>>
    /\ cur = [t \in Threads |-> NoId]
    /\ log = [t \in Conns |-> <<>>]
    /\ metrics = NoMetrics
    /\ mhist = NoMhist
    /\ InitPool
    /\ hist = [last |-> [k \in Keys |-> NoLast],
               ttl |-> FALSE,
               get |-> [key |-> "", res |-> <<>>, at |-> 0, by |-> NoThread,
                        last |-> NoLast],
               snap |-> [t \in Threads |-> [x \in {} |-> <<>>]],
               pre |-> [t \in Threads |-> <<>>],
               snaplines |-> [t \in Threads |-> <<>>],
               snapdone |-> [t \in Threads |-> FALSE],
               rfail |-> [t \in Threads |-> FALSE],
               seen |-> [t \in Threads |-> {}],
               mget |-> [keys |-> <<>>, res |-> <<>>, by |-> NoThread,
                         seen |-> {}],
               compacted |-> FALSE]

\* the state the constructors leave on a first start
InitState(bt, jo) == InitBase(bt, "jf_sleep", jo, <<>>)

InitWith(bt) == InitState(bt, TRUE)

\* the engine alone: no batcher, so no timer thread
InitStore == InitWith("off")

\* a thread inside set or del goes on
WriteStep(t) ==
    \/ set_append(t) /\ UNCHANGED <<calls, batchVars, metricVars>>
    \/ del_append(t) /\ UNCHANGED <<calls, batchVars, metricVars>>

\* a thread inside compact goes on
CompactStep(t) ==
    \/ compact_walk(t) /\ UNCHANGED <<calls, batchVars, metricVars>>
    \/ compact_close(t) /\ UNCHANGED <<calls, batchVars, metricVars>>
    \/ compact_swap(t) /\ UNCHANGED <<calls, batchVars, metricVars>>
    \/ compact_rename(t) /\ UNCHANGED <<calls, batchVars, metricVars>>
    \/ compact_reopen(t) /\ UNCHANGED <<calls, batchVars, metricVars>>
    \/ compact_end(t) /\ UNCHANGED <<calls, batchVars, metricVars>>

\* two worker threads, every SET without TTL clause
NextStore ==
    \/ \E t \in Conns : HandleSet(t, Keys, {0})
    \/ \E t \in Conns : HandleDel(t, Keys)
    \/ \E t \in Conns : HandleGet(t, Keys)
    \/ \E t \in Conns : HandleCompact(t)
    \/ \E t \in Conns : WriteStep(t)
    \/ \E t \in Conns : CompactStep(t)
    \/ flusher_check /\ UNCHANGED <<calls, batchVars, metricVars>>
    \/ flusher_flush /\ UNCHANGED <<calls, batchVars, metricVars>>

SpecStore == InitStore /\ [][NextStore]_vars

\* one worker thread and one key, SET with and without TTL clause, and the
\* clock
NextTtl ==
    \/ HandleSet("c1", TtlKeys, TTLs)
    \/ HandleDel("c1", TtlKeys)
    \/ HandleGet("c1", TtlKeys)
    \/ HandleCompact("c1")
    \/ WriteStep("c1")
    \/ CompactStep("c1")
    \/ flusher_check /\ UNCHANGED <<calls, batchVars, metricVars>>
    \/ flusher_flush /\ UNCHANGED <<calls, batchVars, metricVars>>
    \/ Tick /\ UNCHANGED <<calls, batchVars, metricVars>>

SpecTtl == InitStore /\ [][NextTtl]_vars


(***************************************************************************)
(* MGET next to writers                                                    *)
(***************************************************************************)
\* the key lists of the MGET commands
KeyLists ==
    {<<"k1", "k2">>, <<"k2", "k1">>, <<"k1", "k1">>, <<"k2", "k1", "k2">>}

HandleMget(t) ==
    /\ pc[t] = "recv" /\ calls < MaxCalls /\ calls' = calls + 1
    /\ UNCHANGED <<batchVars, metricVars>>
    /\ \E keys \in KeyLists : mget_begin(t, keys)

NextMget ==
    \/ \E t \in Conns : HandleMget(t)
    \/ \E t \in Conns : mget_shard(t) /\ UNCHANGED <<calls, batchVars>>
    \/ \E t \in Conns : HandleSet(t, Keys, {0})
    \/ \E t \in Conns : HandleDel(t, Keys)
    \/ \E t \in Conns : HandleGet(t, Keys)
    \/ \E t \in Conns : WriteStep(t)

SpecMget == InitStore /\ [][NextMget]_vars

(***************************************************************************)
(* Every engine operation that takes a lock, side by side                  *)
(***************************************************************************)
NextLocks ==
    \/ \E t \in Conns : HandleSet(t, TtlKeys, {0})
    \/ HandleDel("c1", TtlKeys)
    \/ HandleGet("c2", TtlKeys)
    \/ \E t \in Conns : HandleMget(t)
    \/ \E t \in Conns : HandleCompact(t)
    \/ \E t \in Conns : WriteStep(t)
    \/ \E t \in Conns : mget_shard(t) /\ UNCHANGED <<calls, batchVars>>
    \/ \E t \in Conns : CompactStep(t)
    \/ flusher_check /\ UNCHANGED <<calls, batchVars, metricVars>>
    \/ flusher_flush /\ UNCHANGED <<calls, batchVars, metricVars>>

SpecLocks == InitStore /\ [][NextLocks]_vars

(***************************************************************************)
(* The journal line of a SET as text, and Parser::parse_plain_text on it   *)
(***************************************************************************)
\* a text is a sequence of atoms: one space, or a word without whitespace
Sp == " "
Atoms == {"a", Sp, "EX", "5"}
IsWord(a) == a # Sp

\* the values a SET can carry (array framing takes any bytes): texts in
\* which two words are always separated by at least one space
ValueTexts ==
    {v \in UNION {[1 .. n -> Atoms] : n \in 0 .. MaxAtoms} :
        \A i \in 1 .. (Len(v) - 1) : ~(IsWord(v[i]) /\ IsWord(v[i + 1]))}

\* journal_ << "SET " << key << " " << value [<< " EX " << ttl] << "\n"
SetText(k, v, t) ==
    <<"SET", Sp, k, Sp>> \o v
        \o (IF t > 0 THEN <<Sp, "EX", Sp, ToString(t)>> ELSE <<>>)

\* std::ws: the text without its leading whitespace
RECURSIVE SkipWs(_)
SkipWs(s) == IF s # <<>> /\ Head(s) = Sp THEN SkipWs(Tail(s)) ELSE s

\* operator>>(std::string&): the next word and what follows it
ReadWord(s) ==
    LET r == SkipWs(s)
    IN  IF r = <<>> THEN [word |-> "", rest |-> <<>>]
        ELSE [word |-> Head(r), rest |-> Tail(r)]

\* while (value_stream >> part) parts.push_back(part)
WordsOf(s) == SelectSeq(s, IsWord)

\* the parts joined by single spaces
RECURSIVE JoinWords(_)
JoinWords(ws) ==
    IF ws = <<>> THEN <<>>
    ELSE IF Len(ws) = 1 THEN ws
    ELSE <<Head(ws), Sp>> \o JoinWords(Tail(ws))

\* Parser::parse_plain_text on the text of a SET line
parse_set_text(line) ==
    LET name == ReadWord(line)
        key == ReadWord(name.rest)
        value_part == SkipWs(key.rest)
        parts == WordsOf(value_part)
        n == Len(parts)
    IN  IF n >= 3 /\ parts[n - 1] \in {"EX", "TTL"}
        THEN IF IsIntToken(parts[n])
             THEN SetCmd(key.word, JoinWords(SubSeq(parts, 1, n - 2)),
                         stoi(parts[n]))
             ELSE ThrowCmd
        ELSE SetCmd(key.word, value_part, 0)

\* the SET commands that reach set(): by array framing any value, without
\* TTL (Parser::parse_resp reads val_len bytes); by a line of text what
\* Parser::parse_plain_text makes of the line
TextSets ==
    {SetCmd(k, v, 0) : k \in Keys, v \in ValueTexts}
        \cup ({parse_set_text(<<"SET", Sp, k, Sp>> \o v) :
                   k \in Keys, v \in ValueTexts} \ {ThrowCmd})

\* set() on an empty store, with the value as text: the entry is stored
\* and the line appended
set_text(t) ==
    /\ pc[t] = "recv" /\ log[t] = <<>>
    /\ \E c \in TextSets :
           LET idx == get_shard_index(c.key)
           IN  /\ shards' = [shards EXCEPT ![idx] = Put(@, c.key, SetEntry(c, now_ms))]
               /\ journal_buf' = Append(journal_buf,
                                        SetText(c.key, c.value, c.ttl_seconds))
               /\ log' = [log EXCEPT ![t] =
                              Append(@, [cmd |-> c, res |-> OK, mem |-> Nil,
                                         pend |-> {}])]
               /\ resp' = [resp EXCEPT ![t] = OK]
    /\ calls' = calls + 1
    /\ UNCHANGED <<shard_mtx, journal_open, journal_ino, journal_mtx,
                   is_compacting, inodes, path, now_ms, pc, cmd, ci, tmp_ino,
                   tmp_buf, hist, current_batch, batch_mtx, running,
                   batch_to_flush, total_batches, total_batched_writes, sub,
                   applied, cur, metricVars, poolVars>>

NextText == set_text("c1")

SpecText == InitStore /\ [][NextText]_vars

(***************************************************************************)
(* One compaction next to a writer whose records all reach the journal     *)
(***************************************************************************)
\* c1 compacts; c2 sends SET and DEL, each entering set() or del() while
\* the journal stream is open, so that every write is appended
NextDuring ==
    \/ journal_open /\ HandleSet("c2", Keys, {0})
    \/ journal_open /\ HandleDel("c2", Keys)
    \/ HandleCompact("c1")
    \/ WriteStep("c2")
    \/ CompactStep("c1")
    \/ flusher_check /\ UNCHANGED <<calls, batchVars, metricVars>>
    \/ flusher_flush /\ UNCHANGED <<calls, batchVars, metricVars>>

SpecDuring == InitStore /\ [][NextDuring]_vars

(***************************************************************************)
(* GET and MGET of entries with a deadline                                 *)
(***************************************************************************)
NextExpiry ==
    \/ HandleSet("c1", Keys, {1})
    \/ HandleGet("c1", TtlKeys)
    \/ HandleMget("c2")
    \/ set_append("c1") /\ UNCHANGED <<calls, batchVars, metricVars>>
    \/ mget_shard("c2") /\ UNCHANGED <<calls, batchVars>>
    \/ Tick /\ UNCHANGED <<calls, batchVars, metricVars>>

SpecExpiry == InitStore /\ [][NextExpiry]_vars

(***************************************************************************)
(* compact(): the walk of one shard in the steps a writer can tell apart   *)
(***************************************************************************)
\* std::lock_guard lock(shards[i].mtx) at the top of the loop body
compact_walk_lock(t) ==
    LET i == ci[t]
    IN  /\ pc[t] = "c_walk"
        /\ shard_mtx[i] = NoThread
        /\ shard_mtx' = [shard_mtx EXCEPT ![i] = t]
        /\ pc' = [pc EXCEPT ![t] = "c_walking"]
        /\ UNCHANGED <<shards, journal_open, journal_ino, journal_buf,
                       journal_mtx, is_compacting, inodes, path, now_ms, cmd,
                       ci, tmp_ino, tmp_buf, resp, hist, poolVars>>

\* the walk going on to the next shard without giving the lock back
compact_walk_entries_keep_lock(t) ==
    LET i == ci[t]
        live == Live(shards[i], now_ms)
    IN  /\ pc[t] = "c_walking"
        /\ \E order \in Orders(live) :
               tmp_buf' = [tmp_buf EXCEPT ![t] =
                   @ \o [n \in DOMAIN order |->
                            SnapshotLine(order[n], shards[i][order[n]])]]
        /\ hist' = [hist EXCEPT !.snap[t] =
                [k \in (DOMAIN @) \cup live |->
                    IF k \in live THEN shards[i][k].value ELSE @[k]]]
        /\ ci' = [ci EXCEPT ![t] = i + 1]
        /\ pc' = [pc EXCEPT ![t] = IF i + 1 = NUM_SHARDS THEN "c_close" ELSE "c_walk"]
        /\ UNCHANGED <<shards, shard_mtx, journal_open, journal_ino,
                       journal_buf, journal_mtx, is_compacting, inodes, path,
                       now_ms, cmd, tmp_ino, resp, poolVars>>

\* the inner loop over the entries of the shard; the lock_guard ends with
\* the loop body
compact_walk_entries(t) ==
    LET i == ci[t]
        live == Live(shards[i], now_ms)
    IN  /\ pc[t] = "c_walking"
        /\ \E order \in Orders(live) :
               tmp_buf' = [tmp_buf EXCEPT ![t] =
                   @ \o [n \in DOMAIN order |->
                            SnapshotLine(order[n], shards[i][order[n]])]]
        /\ hist' = [hist EXCEPT !.snap[t] =
                [k \in (DOMAIN @) \cup live |->
                    IF k \in live THEN shards[i][k].value ELSE @[k]]]
        /\ shard_mtx' = [shard_mtx EXCEPT ![i] = NoThread]
        /\ ci' = [ci EXCEPT ![t] = i + 1]
        /\ pc' = [pc EXCEPT ![t] = IF i + 1 = NUM_SHARDS THEN "c_close" ELSE "c_walk"]
        /\ UNCHANGED <<shards, journal_open, journal_ino,
                       journal_buf, journal_mtx, is_compacting, inodes, path,
                       now_ms, cmd, tmp_ino, resp, poolVars>>

\* a thread inside compact goes on, the walk in two steps
WalkStep(t) ==
    \/ compact_walk_lock(t) /\ UNCHANGED <<calls, batchVars, metricVars>>
    \/ compact_walk_entries(t) /\ UNCHANGED <<calls, batchVars, metricVars>>
    \/ compact_close(t) /\ UNCHANGED <<calls, batchVars, metricVars>>
    \/ compact_swap(t) /\ UNCHANGED <<calls, batchVars, metricVars>>
    \/ compact_rename(t) /\ UNCHANGED <<calls, batchVars, metricVars>>
    \/ compact_reopen(t) /\ UNCHANGED <<calls, batchVars, metricVars>>
    \/ compact_end(t) /\ UNCHANGED <<calls, batchVars, metricVars>>

NextWalk ==
    \/ \E t \in Conns : HandleSet(t, Keys, {0})
    \/ \E t \in Conns : HandleDel(t, Keys)
    \/ \E t \in Conns : HandleCompact(t)
    \/ \E t \in Conns : WriteStep(t)
    \/ \E t \in Conns : WalkStep(t)
    \/ flusher_check /\ UNCHANGED <<calls, batchVars, metricVars>>
    \/ flusher_flush /\ UNCHANGED <<calls, batchVars, metricVars>>

SpecWalk == InitStore /\ [][NextWalk]_vars

(***************************************************************************)
(* GET and STATS in the steps that a reader of the metrics can tell apart  *)
(***************************************************************************)
\* the durations get measures on a connection, in microseconds: either side
\* of the 1 ms bound on one, below 10 ms and the 100 ms bound on the other
DurationsOf(t) == IF t = "c1" THEN {999, 1000} ELSE {9999, 100000}

\* the key a connection reads
KeyOf(t) == IF t = "c1" THEN "k1" ELSE "k2"

TimedGetCmd(k) ==
    [type |-> "GET", key |-> k, value |-> <<>>, ttl_seconds |-> 0,
     res |-> <<>>, us |-> 0]

\* get(): lock the shard; total_requests++
get_enter(t, k) ==
    LET idx == get_shard_index(k)
    IN  /\ pc[t] = "recv"
        /\ shard_mtx[idx] = NoThread
        /\ shard_mtx' = [shard_mtx EXCEPT ![idx] = t]
        /\ cmd' = [cmd EXCEPT ![t] = TimedGetCmd(k)]
        /\ metrics' = count_request(metrics)
        /\ pc' = [pc EXCEPT ![t] = "get_find"]
        /\ UNCHANGED <<shards, journal_open, journal_ino, journal_buf,
                       journal_mtx, is_compacting, inodes, path, now_ms, ci,
                       tmp_ino, tmp_buf, resp, hist, mhist, poolVars>>

\* get(): find, lazy eviction; cache_hits++ or cache_misses++
get_find(t) ==
    LET k == cmd[t].key
        idx == get_shard_index(k)
    IN  /\ pc[t] = "get_find"
        /\ shards' = [shards EXCEPT ![idx] = GetEffect(@, k, now_ms)]
        /\ cmd' = [cmd EXCEPT ![t].res = GetResult(shards[idx], k, now_ms)]
        /\ metrics' = count_result(metrics, GetHit(shards[idx], k, now_ms))
        /\ pc' = [pc EXCEPT ![t] = "get_time"]
        /\ UNCHANGED <<shard_mtx, journal_open, journal_ino, journal_buf,
                       journal_mtx, is_compacting, inodes, path, now_ms, ci,
                       tmp_ino, tmp_buf, resp, hist, mhist, poolVars>>

\* get(): the duration is taken; record_latency: total_latency_us.fetch_add
record_latency_add(t, us) ==
    /\ pc[t] = "get_time"
    /\ cmd' = [cmd EXCEPT ![t].us = us]
    /\ metrics' = latency_add(metrics, us)
    /\ mhist' = [mhist EXCEPT !.started = @ + 1]
    /\ pc' = [pc EXCEPT ![t] = "rec_bucket"]
    /\ UNCHANGED <<shards, shard_mtx, journal_open, journal_ino, journal_buf,
                   journal_mtx, is_compacting, inodes, path, now_ms, ci,
                   tmp_ino, tmp_buf, resp, hist, poolVars>>

\* LatencyHistogram::record: the bucket counter
record_bucket(t) ==
    /\ pc[t] = "rec_bucket"
    /\ metrics' = bucket_inc(metrics, cmd[t].us)
    /\ pc' = [pc EXCEPT ![t] = "rec_sample"]
    /\ UNCHANGED <<shards, shard_mtx, journal_open, journal_ino, journal_buf,
                   journal_mtx, is_compacting, inodes, path, now_ms, cmd, ci,
                   tmp_ino, tmp_buf, resp, hist, mhist, poolVars>>

\* LatencyHistogram::record: the block under samples_mtx; record_latency
\* and get return, the shard lock is released
record_sample(t) ==
    /\ pc[t] = "rec_sample"
    /\ metrics' = sample_push(metrics, cmd[t].us)
    /\ mhist' = [mhist EXCEPT !.done = @ + 1,
                              !.pushed = Append(@, cmd[t].us)]
    /\ shard_mtx' = [shard_mtx EXCEPT ![get_shard_index(cmd[t].key)] = NoThread]
    /\ cmd' = [cmd EXCEPT ![t] = UnknownCmd]
    /\ Respond(t, cmd[t].res)
    /\ UNCHANGED <<shards, journal_open, journal_ino, journal_buf,
                   journal_mtx, is_compacting, inodes, path, now_ms, ci,
                   tmp_ino, tmp_buf, hist, poolVars>>

\* the locals of Metrics::to_json; done0: record_latency calls that had
\* returned when to_json began
StatsCmd ==
    [type |-> "STATS", key |-> "", value |-> <<>>, ttl_seconds |-> 0,
     hits |-> 0, misses |-> 0, total |-> 0, latency |-> 0, p50 |-> 0,
     p95 |-> 0, p99 |-> 0, n |-> 0, batches |-> 0, batched_writes |-> 0,
     buckets |-> <<>>, done0 |-> mhist.done]

\* the steps of to_json, in order
StatsSteps ==
    <<"hits", "misses", "total", "latency", "p50", "p95", "p99", "batches",
      "batched_writes", "buckets">>

\* execute(): case STATS calls to_json
stats_begin(t) ==
    /\ pc[t] = "recv"
    /\ cmd' = [cmd EXCEPT ![t] = StatsCmd]
    /\ ci' = [ci EXCEPT ![t] = 1]
    /\ pc' = [pc EXCEPT ![t] = "stats"]
    /\ UNCHANGED <<shards, shard_mtx, journal_open, journal_ino, journal_buf,
                   journal_mtx, is_compacting, inodes, path, now_ms, tmp_ino,
                   tmp_buf, resp, hist, metricVars, poolVars>>

\* to_json: one load of a counter, or one call of percentile (which holds
\* samples_mtx for its whole body)
StatsLoad(c, step) ==
    IF step = "hits" THEN [c EXCEPT !.hits = metrics.cache_hits]
    ELSE IF step = "misses" THEN [c EXCEPT !.misses = metrics.cache_misses]
    ELSE IF step = "total" THEN [c EXCEPT !.total = metrics.total_requests]
    ELSE IF step = "latency"
         THEN [c EXCEPT !.latency = metrics.total_latency_us]
    ELSE IF step = "p50"
         THEN [c EXCEPT !.p50 = percentile(metrics.latency_samples, 50),
                        !.n = Len(metrics.latency_samples)]
    ELSE IF step = "p95"
         THEN [c EXCEPT !.p95 = percentile(metrics.latency_samples, 95)]
    ELSE IF step = "p99"
         THEN [c EXCEPT !.p99 = percentile(metrics.latency_samples, 99)]
    ELSE IF step = "batches" THEN [c EXCEPT !.batches = total_batches]
    ELSE [c EXCEPT !.batched_writes = total_batched_writes]

stats_load(t) ==
    /\ pc[t] = "stats"
    /\ StatsSteps[ci[t]] # "buckets"
    /\ cmd' = [cmd EXCEPT ![t] = StatsLoad(@, StatsSteps[ci[t]])]
    /\ ci' = [ci EXCEPT ![t] = @ + 1]
    /\ UNCHANGED <<shards, shard_mtx, journal_open, journal_ino, journal_buf,
                   journal_mtx, is_compacting, inodes, path, now_ms, pc,
                   tmp_ino, tmp_buf, resp, hist, metricVars, poolVars>>

\* the JSON text, as tokens; the ratios computed from these numbers are
\* left out
RECURSIVE NumTokens(_)
NumTokens(ns) ==
    IF ns = <<>> THEN <<>> ELSE <<ToString(Head(ns))>> \o NumTokens(Tail(ns))

StatsJson(c) ==
    <<"cache_hits", ToString(c.hits), "cache_misses", ToString(c.misses),
      "total_requests", ToString(c.total),
      "p50_latency_us", ToString(c.p50), "p95_latency_us", ToString(c.p95),
      "p99_latency_us", ToString(c.p99), "histogram">> \o NumTokens(c.buckets)

\* get_counts: the six bucket counters, one load after the other; to_json
\* returns after the last
stats_bucket(t) ==
    LET c == [cmd[t] EXCEPT
                  !.buckets = Append(@, metrics.buckets[Len(@) + 1])]
        last == Len(c.buckets) = Len(metrics.buckets)
    IN  /\ pc[t] = "stats"
        /\ StatsSteps[ci[t]] = "buckets"
        /\ IF last
           THEN /\ cmd' = [cmd EXCEPT ![t] = UnknownCmd]
                /\ ci' = [ci EXCEPT ![t] = 0]
                /\ mhist' = [mhist EXCEPT
                       !.prev[t] = mhist.last[t],
                       !.last[t] = [valid |-> TRUE, p50 |-> c.p50,
                                    p95 |-> c.p95, p99 |-> c.p99, n |-> c.n,
                                    buckets |-> c.buckets, done0 |-> c.done0,
                                    done1 |-> mhist.done,
                                    started1 |-> mhist.started]]
                /\ Respond(t, StatsJson(c))
           ELSE /\ cmd' = [cmd EXCEPT ![t] = c]
                /\ UNCHANGED <<ci, pc, resp, mhist>>
        /\ UNCHANGED <<shards, shard_mtx, journal_open, journal_ino,
                       journal_buf, journal_mtx, is_compacting, inodes, path,
                       now_ms, tmp_ino, tmp_buf, hist, metrics, poolVars>>

HandleTimedGet(t) ==
    /\ calls < MaxRequests /\ calls' = calls + 1
    /\ UNCHANGED batchVars
    /\ get_enter(t, KeyOf(t))

HandleStats(t) ==
    /\ calls < MaxRequests /\ calls' = calls + 1
    /\ UNCHANGED batchVars
    /\ stats_begin(t)

\* a thread inside get goes on
GetStep(t) ==
    \/ get_find(t) /\ UNCHANGED <<calls, batchVars>>
    \/ \E us \in DurationsOf(t) :
           record_latency_add(t, us) /\ UNCHANGED <<calls, batchVars>>
    \/ record_bucket(t) /\ UNCHANGED <<calls, batchVars>>
    \/ record_sample(t) /\ UNCHANGED <<calls, batchVars>>

\* a thread inside to_json goes on
StatsStep(t) ==
    \/ stats_load(t) /\ UNCHANGED <<calls, batchVars>>
    \/ stats_bucket(t) /\ UNCHANGED <<calls, batchVars>>

\* two worker threads: both send GET, one of them STATS and SET as well
NextMetrics ==
    \/ \E t \in Conns : HandleTimedGet(t)
    \/ HandleStats("c1")
    \/ \E t \in Conns : GetStep(t)
    \/ StatsStep("c1")
    \/ HandleSet("c1", TtlKeys, {0})
    \/ set_append("c1") /\ UNCHANGED <<calls, batchVars, metricVars>>

SpecMetrics == InitStore /\ [][NextMetrics]_vars

(***************************************************************************)
(* GET in its steps next to MGET                                           *)
(***************************************************************************)
\* two worker threads sending GET, one of them MGET and the other SET
NextCounters ==
    \/ \E t \in Conns : HandleTimedGet(t)
    \/ \E t \in Conns : GetStep(t)
    \/ HandleMget("c2")
    \/ mget_shard("c2") /\ UNCHANGED <<calls, batchVars>>
    \/ HandleSet("c1", Keys, {0})
    \/ set_append("c1") /\ UNCHANGED <<calls, batchVars, metricVars>>

SpecCounters == InitStore /\ [][NextCounters]_vars

(***************************************************************************)
(* Start on a journal file left by an earlier run or a crash               *)
(***************************************************************************)
\* the lines a journal file may hold: records, an empty line, an unknown
\* verb, records cut short, a TTL argument that is no number
JournalLines ==
    {<<"SET", "k1", "a">>, <<"SET", "k1", "b", "c", "EX", "1">>,
     <<"DEL", "k1">>, <<"SET", "k2", "a">>, <<>>, <<"FOO", "k1">>,
     <<"SET", "k1">>, <<"SET", "k1", "a", "EX", "x">>}

RECURSIVE SeqsUpTo(_, _)
SeqsUpTo(S, n) ==
    IF n = 0 THEN {<<>>}
    ELSE LET shorter == SeqsUpTo(S, n - 1)
         IN  shorter \cup {Append(q, x) : q \in shorter, x \in S}

\* std::stoi throws on some line of the file
Throws(lines) ==
    \E i \in DOMAIN lines :
        lines[i] # <<>> /\ parse_plain_text(lines[i]).type = "THROW"

\* the entries of map m that belong to shard i
ShardPart(m, i) ==
    [k \in {x \in DOMAIN m : get_shard_index(x) = i} |-> m[k]]

\* a replay that runs every record through set() and del(), which append
ctor_load_rejournal ==
    /\ pc["jf"] = "boot"
    /\ ~Throws(WalLines)
    /\ shards' = [i \in ShardIds |->
                     ShardPart(load_from_disk(WalLines, now_ms), i)]
    /\ journal_buf' = journal_buf \o WalLines
    /\ journal_open' = TRUE
    /\ journal_ino' = IF WalExists THEN path["wal"] ELSE journal_ino
    /\ pc' = [pc EXCEPT !["jf"] = "jf_sleep"]
    /\ UNCHANGED <<shard_mtx,
                   journal_mtx, is_compacting, inodes, path, now_ms, cmd, ci,
                   tmp_ino, tmp_buf, resp, calls, hist, batchVars,
                   metricVars, poolVars>>

\* Impl::Impl: load_from_disk runs through; journal_.open in append mode;
\* start the flusher thread
ctor_load ==
    /\ pc["jf"] = "boot"
    /\ ~Throws(WalLines)
    /\ shards' = [i \in ShardIds |->
                     ShardPart(load_from_disk(WalLines, now_ms), i)]
    /\ journal_open' = TRUE
    /\ journal_ino' = IF WalExists THEN path["wal"] ELSE journal_ino
    /\ pc' = [pc EXCEPT !["jf"] = "jf_sleep"]
    /\ UNCHANGED <<shard_mtx, journal_buf,
                   journal_mtx, is_compacting, inodes, path, now_ms, cmd, ci,
                   tmp_ino, tmp_buf, resp, calls, hist, batchVars,
                   metricVars, poolVars>>

\* Impl::Impl: std::stoi throws inside load_from_disk; nothing catches the
\* exception on the way out of main, the process terminates
ctor_throw ==
    /\ pc["jf"] = "boot"
    /\ Throws(WalLines)
    /\ pc' = [x \in Threads |-> "dead"]
    /\ UNCHANGED <<shards, shard_mtx, journal_open, journal_ino, journal_buf,
                   journal_mtx, is_compacting, inodes, path, now_ms, cmd, ci,
                   tmp_ino, tmp_buf, resp, calls, hist, batchVars,
                   metricVars, poolVars>>

InitReplay ==
    \E lines \in SeqsUpTo(JournalLines, MaxLines) :
        InitBase("off", "boot", TRUE, lines)

NextReplay ==
    \/ ctor_load
    \/ ctor_throw
    \/ \E t \in Conns : pc["jf"] # "boot" /\ HandleGet(t, Keys)

SpecReplay == InitReplay /\ [][NextReplay]_vars

(***************************************************************************)
(* The engine with a file system that can refuse open and rename           *)
(***************************************************************************)
HandleCompactFail(t) ==
    /\ pc[t] = "recv" /\ calls < MaxCalls /\ calls' = calls + 1
    /\ UNCHANGED <<batchVars, metricVars>>
    /\ compact_open_fail(t)

\* a thread inside compact meets a failure
CompactFailStep(t) ==
    \/ compact_open_fail_return(t) /\ UNCHANGED <<calls, batchVars, metricVars>>
    \/ compact_rename_fail(t) /\ UNCHANGED <<calls, batchVars, metricVars>>
    \/ compact_reopen_fail(t) /\ UNCHANGED <<calls, batchVars, metricVars>>

\* the journal may have failed to open in the constructor
InitFail == \E jo \in BOOLEAN : InitState("off", jo)

NextFail ==
    \/ \E t \in Conns : HandleSet(t, Keys, {0})
    \/ \E t \in Conns : HandleDel(t, TtlKeys)
    \/ \E t \in Conns : HandleGet(t, TtlKeys)
    \/ \E t \in Conns : HandleCompact(t)
    \/ \E t \in Conns : HandleCompactFail(t)
    \/ \E t \in Conns : WriteStep(t)
    \/ \E t \in Conns : CompactStep(t)
    \/ \E t \in Conns : CompactFailStep(t)
    \/ flusher_check /\ UNCHANGED <<calls, batchVars, metricVars>>
    \/ flusher_flush /\ UNCHANGED <<calls, batchVars, metricVars>>

SpecFail == InitFail /\ [][NextFail]_vars

(***************************************************************************)
(* Stop and start of the server between the commands                       *)
(***************************************************************************)
\* ~Impl with the worker threads gone: running_ = false, join the flusher
\* thread, flush and close the journal; the maps go with the object
impl_dtor ==
    /\ pc["jf"] = "jf_sleep"
    /\ \A t \in Conns : pc[t] = "recv"
    /\ inodes' = IF journal_open
                 THEN [inodes EXCEPT ![journal_ino] = @ \o journal_buf]
                 ELSE inodes
    /\ journal_buf' = <<>>
    /\ journal_open' = FALSE
    /\ shards' = [i \in ShardIds |-> EmptyMap]
    /\ pc' = [pc EXCEPT !["jf"] = "boot"]
    /\ UNCHANGED <<shard_mtx, journal_ino, journal_mtx, is_compacting, path,
                   now_ms, cmd, ci, tmp_ino, tmp_buf, resp, hist, poolVars>>

\* one connection sets a key with a deadline and reads it; the clock; the
\* server is stopped and started again
NextRestart ==
    \/ pc["jf"] # "boot" /\ HandleSet("c1", TtlKeys, {1})
    \/ pc["jf"] # "boot" /\ HandleGet("c1", TtlKeys)
    \/ set_append("c1") /\ UNCHANGED <<calls, batchVars, metricVars>>
    \/ Tick /\ UNCHANGED <<calls, batchVars, metricVars>>
    \/ impl_dtor /\ UNCHANGED <<calls, batchVars, metricVars>>
    \/ ctor_load

SpecRestart == InitStore /\ [][NextRestart]_vars

(***************************************************************************)
(* The thread pool alone: accept loop, workers, destruction                *)
(***************************************************************************)
NextPool ==
    \/ \E w \in Workers : worker_lock(w)
    \/ \E w \in Workers : worker_wait(w)
    \/ \E w \in Workers : wait_spurious(w)
    \/ \E w \in Workers : worker_return(w)
    \/ \E w \in Workers : worker_pop(w)
    \/ \E w \in Workers : worker_handled(w)
    \/ enqueue_push
    \/ enqueue_notify
    \/ pool_stop
    \/ pool_notify_all
    \/ pool_join

SpecPool == InitStore /\ [][NextPool]_vars

\* the scheduler runs every thread that can take a step; clients need not
\* connect or leave, the pool need not be destroyed, and a wait need not
\* wake up by itself
FairPool ==
    /\ SpecPool
    /\ \A w \in Workers :
           /\ WF_vars(worker_lock(w))
           /\ WF_vars(worker_wait(w))
           /\ WF_vars(worker_return(w))
           /\ WF_vars(worker_pop(w))
    /\ WF_vars(enqueue_notify)
    /\ WF_vars(pool_notify_all)
    /\ WF_vars(pool_join)

(***************************************************************************)
(* WriteBatcher                                                            *)
(***************************************************************************)
\* the command put in front of the batch
BatchPushFront(batch, e) == <<e>> \o batch

\* current_batch_.commands.push_back(cmd)
BatchPush(batch, e) == Append(batch, e)

\* the responses the writes of key k still waiting in batch would lead to
PendingOutcomes(batch, k) ==
    {IF batch[i].c.type = "SET" THEN batch[i].c.value ELSE Nil :
        i \in {j \in DOMAIN batch : batch[j].c.key = k}}

\* what a GET of key k would answer now
Peek(k) == GetResult(shards[get_shard_index(k)], k, now_ms)

\* add_to_batch for a SET or DEL, up to the end of its locked block; the
\* caller sends "OK" when it returns.  At the size threshold it calls
\* flush_to_store() with batch_mtx_ held, and flush_to_store() locks
\* batch_mtx_ again.
add_to_batch(t, c) ==
    LET id == [by |-> t, n |-> sub[t] + 1]
        batch == BatchPush(current_batch, [c |-> c, id |-> id])
        full == Len(batch) >= BATCH_SIZE_THRESHOLD
        entry == [cmd |-> c, res |-> IF full THEN <<>> ELSE OK,
                  mem |-> Peek(c.key),
                  pend |-> PendingOutcomes(current_batch, c.key) \cup
                           UNION {PendingOutcomes(batch_to_flush[d], c.key) :
                                      d \in Threads}]
    IN  /\ batch_mtx = NoThread
        /\ current_batch' = batch
        /\ sub' = [sub EXCEPT ![t] = @ + 1]
        /\ log' = [log EXCEPT ![t] = Append(@, entry)]
        /\ IF full
           THEN /\ batch_mtx' = t
                /\ pc' = [pc EXCEPT ![t] = "relock"]
                /\ UNCHANGED resp
           ELSE /\ resp' = [resp EXCEPT ![t] = OK]
                /\ UNCHANGED <<batch_mtx, pc>>
        /\ UNCHANGED <<shards, shard_mtx, journal_open, journal_ino,
                       journal_buf, journal_mtx, is_compacting, inodes, path,
                       now_ms, cmd, ci, tmp_ino, tmp_buf, hist, running,
                       batch_to_flush, total_batches, total_batched_writes,
                       applied, cur, metricVars, poolVars>>

\* std::mutex::lock by the owner is undefined; outcome 1: the thread blocks
\* on its own lock for ever
relock_deadlock(t) ==
    /\ pc[t] = "relock"
    /\ pc' = [pc EXCEPT ![t] = "hung"]
    /\ UNCHANGED <<shards, shard_mtx, journal_open, journal_ino, journal_buf,
                   journal_mtx, is_compacting, inodes, path, now_ms, cmd, ci,
                   tmp_ino, tmp_buf, resp, calls, hist, batchVars,
                   metricVars, poolVars>>

\* outcome 2: lock() throws std::system_error; nothing catches it between
\* here and the worker thread's function, so the process terminates
relock_throw(t) ==
    /\ pc[t] = "relock"
    /\ pc' = [x \in Threads |-> "dead"]
    /\ batch_mtx' = NoThread
    /\ UNCHANGED <<shards, shard_mtx, journal_open, journal_ino, journal_buf,
                   journal_mtx, is_compacting, inodes, path, now_ms, cmd, ci,
                   tmp_ino, tmp_buf, resp, calls, hist, current_batch, running,
                   batch_to_flush, total_batches, total_batched_writes, sub,
                   applied, cur, log, metricVars, poolVars>>

\* where a thread goes on after flush_to_store returns
AfterFlush(d) == IF d = "bt" THEN "loop" ELSE "done"

\* flush_to_store, the locked block: swap the batch out; record_batch
flush_lock(d) ==
    /\ pc[d] = "flush"
    /\ batch_mtx = NoThread
    /\ IF current_batch = <<>>
       THEN /\ pc' = [pc EXCEPT ![d] = AfterFlush(d)]
            /\ UNCHANGED <<current_batch, batch_to_flush, total_batches,
                           total_batched_writes>>
       ELSE /\ batch_to_flush' = [batch_to_flush EXCEPT ![d] = current_batch]
            /\ current_batch' = <<>>
            /\ total_batches' = total_batches + 1
            /\ total_batched_writes' = total_batched_writes + Len(current_batch)
            /\ pc' = [pc EXCEPT ![d] = "drain"]
    /\ UNCHANGED <<shards, shard_mtx, journal_open, journal_ino, journal_buf,
                   journal_mtx, is_compacting, inodes, path, now_ms, cmd, ci,
                   tmp_ino, tmp_buf, resp, calls, hist, batch_mtx, running,
                   sub, applied, cur, log, metricVars, poolVars>>

\* the loop of flush_to_store taking the newest command of the batch first
NextOfNewest(batch) == batch[Len(batch)]

\* the next command of the local batch, in order
NextOf(batch) == Head(batch)
RestOf(batch) == Tail(batch)

\* flush_to_store, the loop: store_.execute(cmd) for a SET
drain_set(d) ==
    /\ pc[d] = "drain"
    /\ batch_to_flush[d] # <<>>
    /\ NextOf(batch_to_flush[d]).c.type = "SET"
    /\ set_lock(d, NextOf(batch_to_flush[d]).c)
    /\ batch_to_flush' = [batch_to_flush EXCEPT ![d] = RestOf(@)]
    /\ applied' = Append(applied, NextOf(batch_to_flush[d]).id)
    /\ cur' = [cur EXCEPT ![d] = NextOf(batch_to_flush[d]).id]
    /\ UNCHANGED <<calls, current_batch, batch_mtx, running, total_batches,
                   total_batched_writes, sub, log, metricVars>>

\* flush_to_store, the loop: store_.execute(cmd) for a DEL
drain_del(d) ==
    /\ pc[d] = "drain"
    /\ batch_to_flush[d] # <<>>
    /\ NextOf(batch_to_flush[d]).c.type = "DEL"
    /\ del_lock(d, NextOf(batch_to_flush[d]).c)
    /\ batch_to_flush' = [batch_to_flush EXCEPT ![d] = RestOf(@)]
    /\ applied' = Append(applied, NextOf(batch_to_flush[d]).id)
    /\ cur' = [cur EXCEPT ![d] = NextOf(batch_to_flush[d]).id]
    /\ UNCHANGED <<calls, current_batch, batch_mtx, running, total_batches,
                   total_batched_writes, sub, log, metricVars>>

\* flush_to_store returns after the last command
drain_done(d) ==
    /\ pc[d] = "drain"
    /\ batch_to_flush[d] = <<>>
    /\ pc' = [pc EXCEPT ![d] = AfterFlush(d)]
    /\ UNCHANGED <<shards, shard_mtx, journal_open, journal_ino, journal_buf,
                   journal_mtx, is_compacting, inodes, path, now_ms, cmd, ci,
                   tmp_ino, tmp_buf, resp, calls, hist, batchVars,
                   metricVars, poolVars>>

\* background_flusher: while (running_) { sleep; flush_to_store(); }
timer_loop ==
    /\ pc["bt"] = "loop"
    /\ pc' = [pc EXCEPT !["bt"] = IF running THEN "flush" ELSE "exit"]
    /\ UNCHANGED <<shards, shard_mtx, journal_open, journal_ino, journal_buf,
                   journal_mtx, is_compacting, inodes, path, now_ms, cmd, ci,
                   tmp_ino, tmp_buf, resp, calls, hist, batchVars,
                   metricVars, poolVars>>

\* ~WriteBatcher: running_ = false
dtor_begin ==
    /\ pc["sd"] = "off"
    /\ running' = FALSE
    /\ pc' = [pc EXCEPT !["sd"] = "join"]
    /\ UNCHANGED <<shards, shard_mtx, journal_open, journal_ino, journal_buf,
                   journal_mtx, is_compacting, inodes, path, now_ms, cmd, ci,
                   tmp_ino, tmp_buf, resp, calls, hist, current_batch,
                   batch_mtx, batch_to_flush, total_batches,
                   total_batched_writes, sub, applied, cur, log, metricVars, poolVars>>

\* the destructor's final flush started without waiting for the timer thread
dtor_no_join ==
    /\ pc["sd"] = "join"
    /\ pc' = [pc EXCEPT !["sd"] = "flush"]
    /\ UNCHANGED <<shards, shard_mtx, journal_open, journal_ino, journal_buf,
                   journal_mtx, is_compacting, inodes, path, now_ms, cmd, ci,
                   tmp_ino, tmp_buf, resp, calls, hist, batchVars,
                   metricVars, poolVars>>

\* ~WriteBatcher: flusher_thread_.join(), then flush_to_store()
dtor_join ==
    /\ pc["sd"] = "join"
    /\ pc["bt"] = "exit"
    /\ pc' = [pc EXCEPT !["sd"] = "flush"]
    /\ UNCHANGED <<shards, shard_mtx, journal_open, journal_ino, journal_buf,
                   journal_mtx, is_compacting, inodes, path, now_ms, cmd, ci,
                   tmp_ino, tmp_buf, resp, calls, hist, batchVars,
                   metricVars, poolVars>>

(***************************************************************************)
(* Connection::handle, SET and DEL routed through the batcher              *)
(***************************************************************************)
\* a connection is served while the batcher exists
Serving(t) == pc[t] = "recv" /\ pc["sd"] = "off" /\ calls < MaxWrites

ConnWrite(t) ==
    /\ Serving(t)
    /\ calls' = calls + 1
    /\ \E c \in SetCmds \cup DelCmds :
           c.ttl_seconds = 0 /\ c.key \in BatchKeys /\ add_to_batch(t, c)

ConnGet(t) ==
    /\ Serving(t)
    /\ calls' = calls + 1
    /\ \E c \in GetCmds :
           /\ c.key \in BatchKeys
           /\ get(t, c)
           /\ log' = [log EXCEPT ![t] =
                  Append(@, [cmd |-> c, res |-> Peek(c.key), mem |-> Peek(c.key),
                             pend |-> {}])]
    /\ UNCHANGED <<current_batch, batch_mtx, running, batch_to_flush,
                   total_batches, total_batched_writes, sub, applied, cur>>

\* WriteBatcher::WriteBatcher starts the timer thread
Init == InitWith("loop")

Next ==
    \/ \E t \in Conns : ConnWrite(t)
    \/ \E t \in Conns : relock_deadlock(t)
    \/ \E t \in Conns : relock_throw(t)
    \/ \E t \in Conns : ConnGet(t)
    \/ \E d \in Drainers : WriteStep(d)
    \/ timer_loop
    \/ \E d \in Drainers : flush_lock(d)
    \/ \E d \in Drainers : drain_set(d)
    \/ \E d \in Drainers : drain_del(d)
    \/ \E d \in Drainers : drain_done(d)
    \/ dtor_begin
    \/ dtor_join

Spec == Init /\ [][Next]_vars

(***************************************************************************)
(* Shutdown: ~WriteBatcher, then ~Impl                                     *)
(***************************************************************************)
\* Impl::running_: true until ~Impl has begun
ImplRunning == pc["sd"] \notin {"impl_join", "impl_flush", "impl_close", "closed"}

\* ~Impl after the batcher is gone: running_ = false
impl_dtor_begin ==
    /\ pc["sd"] = "done"
    /\ pc' = [pc EXCEPT !["sd"] = "impl_join"]
    /\ UNCHANGED <<shards, shard_mtx, journal_open, journal_ino, journal_buf,
                   journal_mtx, is_compacting, inodes, path, now_ms, cmd, ci,
                   tmp_ino, tmp_buf, resp, calls, hist, batchVars,
                   metricVars, poolVars>>

\* flusher thread: while (running_) is false
flusher_exit ==
    /\ pc["jf"] = "jf_sleep"
    /\ ~ImplRunning
    /\ pc' = [pc EXCEPT !["jf"] = "exit"]
    /\ UNCHANGED <<shards, shard_mtx, journal_open, journal_ino, journal_buf,
                   journal_mtx, is_compacting, inodes, path, now_ms, cmd, ci,
                   tmp_ino, tmp_buf, resp, calls, hist, batchVars,
                   metricVars, poolVars>>

\* ~Impl: flusher_thread_.join()
impl_dtor_join ==
    /\ pc["sd"] = "impl_join"
    /\ pc["jf"] = "exit"
    /\ pc' = [pc EXCEPT !["sd"] = "impl_flush"]
    /\ UNCHANGED <<shards, shard_mtx, journal_open, journal_ino, journal_buf,
                   journal_mtx, is_compacting, inodes, path, now_ms, cmd, ci,
                   tmp_ino, tmp_buf, resp, calls, hist, batchVars,
                   metricVars, poolVars>>

\* ~Impl: if (journal_.is_open()) journal_.flush();
impl_dtor_flush ==
    /\ pc["sd"] = "impl_flush"
    /\ inodes' = IF journal_open
                 THEN [inodes EXCEPT ![journal_ino] = @ \o journal_buf]
                 ELSE inodes
    /\ journal_buf' = IF journal_open THEN <<>> ELSE journal_buf
    /\ pc' = [pc EXCEPT !["sd"] = IF journal_open THEN "impl_close" ELSE "closed"]
    /\ UNCHANGED <<shards, shard_mtx, journal_open, journal_ino, journal_mtx,
                   is_compacting, path, now_ms, cmd, ci, tmp_ino, tmp_buf,
                   resp, calls, hist, batchVars, metricVars, poolVars>>

\* ~Impl: journal_.close(), which writes what the buffer still holds
impl_dtor_close ==
    /\ pc["sd"] = "impl_close"
    /\ inodes' = [inodes EXCEPT ![journal_ino] = @ \o journal_buf]
    /\ journal_buf' = <<>>
    /\ journal_open' = FALSE
    /\ pc' = [pc EXCEPT !["sd"] = "closed"]
    /\ UNCHANGED <<shards, shard_mtx, journal_ino, journal_mtx,
                   is_compacting, path, now_ms, cmd, ci, tmp_ino, tmp_buf,
                   resp, calls, hist, batchVars, metricVars, poolVars>>

\* the connections write through the batcher; the batcher is destroyed,
\* then the store
NextShutdown ==
    \/ \E t \in Conns : ConnWrite(t)
    \/ \E t \in Conns : relock_deadlock(t)
    \/ \E t \in Conns : relock_throw(t)
    \/ \E d \in Drainers : WriteStep(d)
    \/ timer_loop
    \/ \E d \in Drainers : flush_lock(d)
    \/ \E d \in Drainers : drain_set(d)
    \/ \E d \in Drainers : drain_del(d)
    \/ \E d \in Drainers : drain_done(d)
    \/ dtor_begin
    \/ dtor_join
    \/ ImplRunning /\ flusher_check /\ UNCHANGED <<calls, batchVars, metricVars>>
    \/ flusher_flush /\ UNCHANGED <<calls, batchVars, metricVars>>
    \/ flusher_exit
    \/ impl_dtor_begin
    \/ impl_dtor_join
    \/ impl_dtor_flush
    \/ impl_dtor_close

SpecShutdown == Init /\ [][NextShutdown]_vars

\* the scheduler runs every thread that can take a step; clients need not
\* send and the server need not be shut down
FairShutdown ==
    /\ SpecShutdown
    /\ WF_vars(timer_loop)
    /\ \A d \in Drainers :
           /\ WF_vars(flush_lock(d))
           /\ WF_vars(drain_set(d))
           /\ WF_vars(drain_del(d))
           /\ WF_vars(drain_done(d))
           /\ WF_vars(WriteStep(d))
    /\ WF_vars(dtor_join)
    /\ \A t \in Conns : WF_vars(relock_deadlock(t) \/ relock_throw(t))
    /\ WF_vars(flusher_flush /\ UNCHANGED <<calls, batchVars, metricVars>>)
    /\ WF_vars(flusher_exit)
    /\ WF_vars(impl_dtor_begin)
    /\ WF_vars(impl_dtor_join)
    /\ WF_vars(impl_dtor_flush)
    /\ WF_vars(impl_dtor_close)

(***************************************************************************)
(* Connection::handle on the bytes received: parse, then route             *)
(***************************************************************************)
ERR == <<"ERROR:", "Unknown", "command">>

\* what the connections send: plain lines and RESP frames, well-formed, with
\* an unknown verb, empty, with no key, with a wrong array length, with a
\* TTL or an array length that is no number
Inputs ==
    {Plain(<<"SET", "k1", "a">>), Plain(<<"DEL", "k1">>),
     Plain(<<"GET", "k1">>), Plain(<<>>), Plain(<<"INVALID">>),
     Plain(<<"get", "k1">>), Plain(<<"MGET">>),
     Plain(<<"SET", "k1", "a", "EX", "x">>),
     RespFrame("3", TRUE, "SET", <<"k1", "a">>),
     RespFrame("2", TRUE, "GET", <<"k1">>),
     RespFrame("0", TRUE, "GET", <<>>),
     RespFrame("1", FALSE, "GET", <<>>),
     RespFrame("2", TRUE, "COMPACT", <<"k1">>),
     RespFrame("1", TRUE, "FOO", <<>>),
     RespFrame("x", TRUE, "GET", <<"k1">>)}

\* execute counting the request before it looks at the command
execute_unknown_counted(t) ==
    /\ pc[t] = "recv"
    /\ resp' = [resp EXCEPT ![t] = ERR]
    /\ metrics' = count_request(metrics)
    /\ UNCHANGED <<shards, shard_mtx, journal_open, journal_ino, journal_buf,
                   journal_mtx, is_compacting, inodes, path, now_ms, pc, cmd,
                   ci, tmp_ino, tmp_buf, hist, mhist, poolVars>>

\* KVStore::execute: !cmd.valid, or the default branch of the switch
execute_unknown(t) ==
    /\ pc[t] = "recv"
    /\ resp' = [resp EXCEPT ![t] = ERR]
    /\ UNCHANGED <<shards, shard_mtx, journal_open, journal_ino, journal_buf,
                   journal_mtx, is_compacting, inodes, path, now_ms, pc, cmd,
                   ci, tmp_ino, tmp_buf, hist, metricVars, poolVars>>

\* an exception leaves Parser::parse; nothing catches it in the worker
\* thread, so the process terminates
parse_throw(t) ==
    /\ pc' = [x \in Threads |-> "dead"]
    /\ UNCHANGED <<shards, shard_mtx, journal_open, journal_ino, journal_buf,
                   journal_mtx, is_compacting, inodes, path, now_ms, cmd, ci,
                   tmp_ino, tmp_buf, resp, hist, batchVars, metricVars, poolVars>>

\* one turn of the loop of Connection::handle: SET and DEL go to the batcher
\* whatever cmd.valid says, everything else to KVStore::execute
ConnHandle(t, input) ==
    LET p == parse(input)
        c == p.cmd
    IN  /\ Serving(t)
        /\ calls' = calls + 1
        /\ IF c.type = "THROW" THEN parse_throw(t)
           ELSE IF c.type \in {"SET", "DEL"} THEN add_to_batch(t, c)
           ELSE /\ IF ~p.valid \/ c.type = "UNKNOWN" THEN execute_unknown(t)
                   ELSE c.type = "GET" /\ get(t, c)
                /\ log' = [log EXCEPT ![t] =
                       Append(@, [cmd |-> c,
                                  res |-> IF p.valid THEN Peek(c.key) ELSE ERR,
                                  mem |-> <<>>, pend |-> {}])]
                /\ UNCHANGED <<current_batch, batch_mtx, running,
                               batch_to_flush, total_batches,
                               total_batched_writes, sub, applied, cur>>

NextProto ==
    \/ \E t \in Conns : \E input \in Inputs : ConnHandle(t, input)
    \/ \E t \in Conns : relock_deadlock(t)
    \/ \E t \in Conns : relock_throw(t)
    \/ \E d \in Drainers : WriteStep(d)
    \/ timer_loop
    \/ \E d \in Drainers : flush_lock(d)
    \/ \E d \in Drainers : drain_set(d)
    \/ \E d \in Drainers : drain_del(d)
    \/ \E d \in Drainers : drain_done(d)
    \/ dtor_begin
    \/ dtor_join

SpecProto == Init /\ [][NextProto]_vars

(***************************************************************************)
(* Properties                                                              *)
(***************************************************************************)
IsPrefix(a, b) == Len(a) <= Len(b) /\ SubSeq(b, 1, Len(a)) = a

InAppend(t) == pc[t] \in {"set_append", "del_append"}
InCompact(t) == pc[t] \in {"c_walk", "c_close", "c_swap", "c_rename", "c_reopen", "c_end"}

\* every record has been appended and flushed to the journal file
JournalQuiet == journal_buf = <<>> /\ \A t \in Threads : ~InAppend(t)

C2_Original ==
    LET g == hist.get
    IN  (g.key # "" /\ g.last.isset) =>
            /\ (g.res = g.last.value) <=>
                   (g.last.ttl = 0 \/ g.at <= g.last.at + g.last.ttl * 1000)
            /\ g.res \in {g.last.value, Nil}

\* C2 amended: get(k) returns v iff t <= 0 or now_ms <= T + t*1000, and
\* (nil) otherwise: a TTL argument below 1 stores a permanent entry.
C2_GetWithinTtl ==
    LET g == hist.get
    IN  (g.key # "" /\ g.last.isset) =>
            /\ (g.res = g.last.value) <=>
                   (g.last.ttl <= 0 \/ g.at <= g.last.at + g.last.ttl * 1000)
            /\ g.res \in {g.last.value, Nil}

\* a get at exactly T + t*1000 that returned the value
C2_Witness ==
    LET g == hist.get
    IN  /\ g.key # "" /\ g.last.isset /\ g.last.ttl > 0
        /\ g.at = g.last.at + g.last.ttl * 1000
        /\ g.res = g.last.value

\* C9: when a COMPACT completes, replaying the journal file from the empty
\* map yields exactly the entries that were non-expired when their shard was
\* walked.
C9_ReplayIsSnapshot ==
    [][\A t \in Conns :
          (pc[t] = "c_end" /\ pc'[t] = "recv") =>
              ValuesOf(load_from_disk(WalLines', now_ms')) = hist.snap[t]]_vars

\* C10: while a compaction runs the file at the journal path exists and is
\* complete: it starts with the whole pre-compaction journal or with the
\* whole snapshot of a compaction.
C10_JournalPathComplete ==
    \A t \in Conns : InCompact(t) =>
        /\ WalExists
        /\ \/ IsPrefix(hist.pre[t], WalLines)
           \/ \E u \in Conns : hist.snapdone[u] /\ IsPrefix(hist.snaplines[u], WalLines)


(***************************************************************************)
(* Properties of the batched path                                          *)
(***************************************************************************)
IsWriteOf(e, k) == e.cmd.type \in {"SET", "DEL"} /\ e.cmd.key = k
IsGetOf(e, k) == e.cmd.type = "GET" /\ e.cmd.key = k

\* execute() has taken the batched write id and returned
Executed(id) ==
    /\ \E i \in DOMAIN applied : applied[i] = id
    /\ \A d \in Threads : ~(InAppend(d) /\ cur[d] = id)

\* C3 as stated: a connection sends SET k v, DEL k, GET k, each after the
\* response to the one before: the GET answers (nil).
C3_Original ==
    \A t \in Conns : \A i \in DOMAIN log[t] :
        (/\ i + 2 <= Len(log[t])
         /\ log[t][i].cmd.type = "SET" /\ log[t][i].res = OK
         /\ log[t][i + 1].cmd.type = "DEL" /\ log[t][i + 1].res = OK
         /\ log[t][i + 1].cmd.key = log[t][i].cmd.key
         /\ IsGetOf(log[t][i + 2], log[t][i].cmd.key))
            => log[t][i + 2].res = Nil

\* C4: two writes of one connection are applied to the map in the order the
\* connection submitted them.
C4_FifoPerConnection ==
    \A i, j \in DOMAIN applied :
        (i < j /\ applied[i].by = applied[j].by) => applied[i].n < applied[j].n

\* two writes of one connection, applied by two different drains
C4_Witness ==
    /\ total_batches >= 2
    /\ \E i, j \in DOMAIN applied : i < j /\ applied[i].by = applied[j].by

\* C5 as stated: every write that add_to_batch accepted is eventually applied
\* to the map and its journal record appended.
C5_Original ==
    \A t \in Conns : \A n \in 1 .. MaxWrites :
        (sub[t] >= n) ~> Executed([by |-> t, n |-> n])

\* C6 as stated: the add_to_batch call that makes the batch reach the
\* threshold flushes the whole batch and returns, leaving an empty batch.
C6_Original ==
    [][\A t \in Conns :
          (pc[t] = "relock" /\ pc'[t] # "relock") =>
              (pc'[t] = "recv" /\ current_batch' = <<>>)]_vars

\* the GETs of key k that follow an acknowledged SET of k on one connection
\* with no write of k by that connection in between and no other writer of k
ReadsAfterSet(t, i, j) ==
    /\ i \in DOMAIN log[t] /\ j \in DOMAIN log[t] /\ i < j
    /\ log[t][i].cmd.type = "SET" /\ log[t][i].res = OK
    /\ IsGetOf(log[t][j], log[t][i].cmd.key)
    /\ \A m \in (i + 1) .. (j - 1) : ~IsWriteOf(log[t][m], log[t][i].cmd.key)
    /\ \A u \in Conns \ {t} : \A m \in DOMAIN log[u] :
           ~IsWriteOf(log[u][m], log[t][i].cmd.key)

\* C7 as stated: such a GET returns v or the value k held when the SET was
\* acknowledged, nothing else.
C7_Original ==
    \A t \in Conns : \A i, j \in 1 .. MaxWrites :
        ReadsAfterSet(t, i, j) =>
            log[t][j].res \in {log[t][i].cmd.value, log[t][i].mem}

\* C7 amended: such a GET returns v, or the value k held when the SET was
\* acknowledged, or the outcome of one of the connection's earlier writes of k
\* that were still waiting in the batcher then.
C7_ReadAfterAck ==
    \A t \in Conns : \A i, j \in 1 .. MaxWrites :
        ReadsAfterSet(t, i, j) =>
            log[t][j].res \in
                {log[t][i].cmd.value, log[t][i].mem} \cup log[t][i].pend

\* one connection: SET k v acknowledged, a GET that saw the old state, a
\* later GET that saw v
C7_Witness ==
    \E t \in Conns : \E i, j, m \in 1 .. MaxWrites :
        /\ ReadsAfterSet(t, i, j) /\ ReadsAfterSet(t, i, m)
        /\ log[t][j].res = log[t][i].mem
        /\ log[t][j].res # log[t][i].cmd.value
        /\ log[t][m].res = log[t][i].cmd.value

\* C8: after the shutdown (running_ = false, join, final flush_to_store) the
\* batch is empty and every accepted command has been executed.
C8_ShutdownDrains ==
    pc["sd"] = "done" =>
        /\ current_batch = <<>>
        /\ \A d \in Threads : batch_to_flush[d] = <<>>
        /\ \A t \in Conns : \A n \in 1 .. sub[t] : Executed([by |-> t, n |-> n])

\* a shutdown after the timer thread and the final flush have both drained
C8_Witness ==
    /\ pc["sd"] = "done"
    /\ cur["sd"] # NoId /\ cur["bt"] # NoId

\* the scheduler runs every thread that can take a step; clients need not
\* send and the batcher need not be shut down
FairSpec ==
    /\ Spec
    /\ WF_vars(timer_loop)
    /\ \A d \in Drainers :
           /\ WF_vars(flush_lock(d))
           /\ WF_vars(drain_set(d))
           /\ WF_vars(drain_del(d))
           /\ WF_vars(drain_done(d))
           /\ WF_vars(WriteStep(d))
    /\ WF_vars(dtor_join)
    /\ \A t \in Conns : WF_vars(relock_deadlock(t) \/ relock_throw(t))


(***************************************************************************)
(* Properties of the failure paths                                         *)
(***************************************************************************)
\* C11: a compact whose temp file cannot be opened changes neither the
\* shard maps nor the journal file nor the journal handle and returns with
\* is_compacting false; a compact whose rename fails leaves the file at the
\* journal path as it is, opens that same file again for append, and returns
\* with is_compacting false.
C11_CompactFailures ==
    [][\A t \in Conns :
          /\ (pc[t] = "recv" /\ pc'[t] = "c_openfail") =>
                 UNCHANGED <<shards, inodes, path, journal_open, journal_ino,
                             journal_buf>>
          /\ (pc[t] = "c_openfail" /\ pc'[t] = "recv") =>
                 /\ ~is_compacting'
                 /\ UNCHANGED <<shards, inodes, path, journal_open, journal_ino,
                                journal_buf>>
          /\ (pc[t] = "c_rename" /\ pc'[t] = "c_reopen" /\ hist'.rfail[t]) =>
                 (WalExists' = WalExists /\ WalLines' = WalLines)
          /\ (pc[t] = "c_reopen" /\ pc'[t] = "c_end" /\ hist.rfail[t]
                  /\ journal_open') =>
                 /\ journal_ino' = path["wal"] /\ path' = path
                 /\ WalLines' = WalLines
          /\ (pc[t] = "c_end" /\ pc'[t] = "recv" /\ hist.rfail[t]) =>
                 /\ ~is_compacting'
                 /\ resp'[t] = OK]_vars

\* a compact with a failed rename has returned: the journal is open on the
\* old file, which holds a record, and the orphan temp file is still there
C11_Witness ==
    \E t \in Conns :
        /\ hist.rfail[t] /\ pc[t] = "recv" /\ resp[t] = OK
        /\ journal_open /\ WalExists /\ journal_ino = path["wal"]
        /\ WalLines # <<>> /\ path["tmp"] # 0
        /\ ~is_compacting


(***************************************************************************)
(* Properties of MGET                                                      *)
(***************************************************************************)
\* the vector of get results for keys on a map m of key -> value
GetVector(m, keys) ==
    [i \in DOMAIN keys |-> IF keys[i] \in DOMAIN m THEN m[keys[i]] ELSE Nil]

\* C12 as stated: a finished mget has one result per input key, in input
\* order, and the result vector is the vector of get(ki) results at one
\* single moment of the call.
C12_Original ==
    LET g == hist.mget
    IN  g.by # NoThread =>
            /\ Len(g.res) = Len(g.keys)
            /\ \E m \in g.seen : g.res = GetVector(m, g.keys)


(***************************************************************************)
(* Properties of recovery                                                  *)
(***************************************************************************)
\* no compaction is between its first and its last step
NoCompaction == \A t \in Threads : ~InCompact(t) /\ pc[t] # "c_openfail"

\* C13 as stated: with every record on disk, a restart recovers every live
\* entry that carries a deadline as an entry that carries a deadline.
C13_Original ==
    (JournalQuiet /\ NoCompaction) =>
        LET replay == load_from_disk(WalLines, now_ms)
        IN  \A k \in DOMAIN Memory :
                (Memory[k].expiry_at_ms # 0 /\ ~is_expired(Memory[k], now_ms)) =>
                    (k \in DOMAIN replay /\ replay[k].expiry_at_ms # 0)


\* the records written to the journal so far, on disk or still buffered
Logged == {WalLines[i] : i \in DOMAIN WalLines}
              \cup {journal_buf[i] : i \in DOMAIN journal_buf}

\* C14 as stated: when set or del has modified the shard map, the record of
\* that operation is already in the journal.
C14_Original ==
    \A t \in Threads :
        /\ pc[t] = "set_append" =>
               SetLine(cmd[t].key, cmd[t].value, cmd[t].ttl_seconds) \in Logged
        /\ pc[t] = "del_append" => DelLine(cmd[t].key) \in Logged


\* a line the replay is to skip: empty, unknown verb, a record cut short, a
\* TTL argument that is no number
Skippable(line) ==
    \/ line = <<>>
    \/ line[1] \notin {"SET", "DEL"}
    \/ line[1] = "SET" /\ Len(line) < 3
    \/ line[1] = "DEL" /\ Len(line) < 2
    \/ parse_plain_text(line).type = "THROW"

Replayable(line) == ~Skippable(line)

\* C15 as stated: the replay of a journal with empty, unknown or malformed
\* lines runs to completion and leaves the map that the journal without
\* those lines gives.
C15_Original ==
    pc["jf"] # "boot" =>
        /\ \A t \in Threads : pc[t] # "dead"
        /\ ValuesOf(Memory) =
               ValuesOf(load_from_disk(SelectSeq(WalLines, Replayable), now_ms))

\* C16: in every STATS snapshot taken with at least MinSamples samples in
\* the ring (the claim has 100), p99 >= p95 >= p50, also while other threads
\* call record_latency
C16_Original ==
    \A t \in Conns :
        LET s == mhist.last[t]
        IN  (s.valid /\ s.n >= MinSamples) =>
                (s.p99 >= s.p95 /\ s.p95 >= s.p50)

\* C17: the sample ring (its lock is free between the steps) holds at most
\* MAX_SAMPLES samples, and after n record_latency calls exactly the most
\* recent min(n, MAX_SAMPLES) samples, in the order they arrived
C17_SampleRing ==
    LET ring == metrics.latency_samples
        n == Len(mhist.pushed)
        kept == IF n < MAX_SAMPLES THEN n ELSE MAX_SAMPLES
    IN  /\ Len(ring) <= MAX_SAMPLES
        /\ n = mhist.done
        /\ Len(ring) = kept
        /\ ring = SubSeq(mhist.pushed, n - kept + 1, n)

\* the ring is full, an old sample has been dropped, and the samples of both
\* connections are in it
C17_Witness ==
    LET ring == metrics.latency_samples
    IN  /\ Len(mhist.pushed) > MAX_SAMPLES
        /\ Len(ring) = MAX_SAMPLES
        /\ \E i, j \in DOMAIN ring :
               ring[i] \in DurationsOf("c1") /\ ring[j] \in DurationsOf("c2")
        /\ Head(mhist.pushed) # Head(ring)

RECURSIVE SumOf(_)
SumOf(ns) == IF ns = <<>> THEN 0 ELSE Head(ns) + SumOf(Tail(ns))

\* the bucket the claim names for a duration: one past the number of bounds
\* (in ms) that micros / 1000 has reached
ClaimedBucket(micros) ==
    1 + Cardinality({b \in {1, 5, 10, 50, 100} : micros \div 1000 >= b})

\* one record_latency call increments exactly one bucket, the claimed one;
\* nothing else changes a bucket
BucketSteps ==
    /\ \A t \in Conns :
           (pc[t] = "rec_bucket" /\ pc'[t] = "rec_sample") =>
               metrics'.buckets =
                   [metrics.buckets EXCEPT ![ClaimedBucket(cmd[t].us)] = @ + 1]
    /\ (\A t \in Conns : ~(pc[t] = "rec_bucket" /\ pc'[t] = "rec_sample")) =>
           metrics'.buckets = metrics.buckets

\* the bucket counts of the latest snapshot of a connection are not below
\* those of the snapshot before
SnapshotsGrow ==
    \A t \in Conns :
        (mhist.last[t].valid /\ mhist.prev[t].valid) =>
            \A i \in DOMAIN mhist.last[t].buckets :
                mhist.last[t].buckets[i] >= mhist.prev[t].buckets[i]

\* C18 as stated: each record_latency call increments exactly one of the six
\* buckets, chosen by micros / 1000 against 1, 5, 10, 50, 100 ms; no bucket
\* decrements; the counts of consecutive STATS snapshots do not decrease and
\* their sum equals the number of completed record_latency calls (at some
\* moment of the snapshot)
C18_Original ==
    [][/\ BucketSteps
       /\ SnapshotsGrow'
       /\ \A t \in Conns :
              LET s == mhist'.last[t]
              IN  s.valid =>
                      (s.done0 <= SumOf(s.buckets) /\ SumOf(s.buckets) <= s.done1)
      ]_vars

\* C18, amended: the sum of a snapshot is at least the number of
\* record_latency calls that had returned when the snapshot began and at most
\* the number of calls begun when it ended
C18_Buckets ==
    [][/\ BucketSteps
       /\ SnapshotsGrow'
       /\ \A t \in Conns :
              LET s == mhist'.last[t]
              IN  s.valid =>
                      (s.done0 <= SumOf(s.buckets) /\ SumOf(s.buckets) <= s.started1)
      ]_vars

\* two snapshots of a connection with calls of both connections recorded
\* between them, the second one taken with no call in progress
C18_Witness ==
    \E t \in Conns :
        LET s == mhist.last[t]
        IN  /\ s.valid /\ mhist.prev[t].valid
            /\ SumOf(s.buckets) >= SumOf(mhist.prev[t].buckets) + 2
            /\ s.started1 = s.done0
            /\ SumOf(s.buckets) = s.done1
            /\ Cardinality({i \in DOMAIN s.buckets : s.buckets[i] > 0}) >= 2

\* the inputs that parse as invalid or carry a verb the parser does not know
InvalidInputs ==
    {input \in Inputs :
        /\ parse(input).cmd.type # "THROW"
        /\ ~parse(input).valid \/ parse(input).cmd.type = "UNKNOWN"}

C20_ClosedJournal ==
    [][~journal_open =>
          /\ \A t \in Conns : \A c \in SetCmds :
                 (calls' = calls + 1 /\ set_lock(t, c)) =>
                     /\ c.key \in DOMAIN Memory'
                     /\ Memory'[c.key].value = c.value
                     /\ resp'[t] = OK /\ pc'[t] = "recv"
                     /\ UNCHANGED <<journal_buf, inodes, path>>
          /\ \A t \in Conns : \A c \in DelCmds :
                 (calls' = calls + 1 /\ del_lock(t, c)) =>
                     /\ c.key \notin DOMAIN Memory'
                     /\ resp'[t] = OK /\ pc'[t] = "recv"
                     /\ UNCHANGED <<journal_buf, inodes, path>>
          /\ \A t \in Conns :
                 (set_append(t) \/ del_append(t)) =>
                     /\ resp'[t] = OK /\ pc'[t] = "recv"
                     /\ UNCHANGED <<journal_buf, inodes, path>>
          /\ \A t \in Threads : pc'[t] # "dead"
      ]_vars

\* the journal was open at the start and took a record; the reopen after a
\* compaction failed; a SET and a DEL after that were answered OK and
\* changed the map, and the journal file does not have them
C20_Witness ==
    /\ ~journal_open
    /\ WalLines # <<>>
    /\ journal_buf = <<>>
    /\ \A t \in Conns : pc[t] = "recv" /\ resp[t] = OK
    /\ Memory # EmptyMap
    /\ ValuesOf(load_from_disk(WalLines, now_ms)) # ValuesOf(Memory)

\* C21: del(k) on a key that is absent changes neither the shard maps nor
\* the journal (the call returns without a DEL record: nothing is buffered,
\* the file is as it was, and the thread does not go on to the append); and
\* since every del(k) leaves k absent, a second DEL k right after a first
\* one is such a call
C21_DelAbsent ==
    [][\A t \in Conns : \A c \in DelCmds :
           (calls' = calls + 1 /\ del_lock(t, c)) =>
               /\ c.key \notin DOMAIN Memory'
               /\ c.key \notin DOMAIN Memory =>
                      /\ UNCHANGED <<shards, journal_buf, inodes, path>>
                      /\ pc'[t] = "recv" /\ resp'[t] = OK
      ]_vars

\* three commands, none of them a GET or a COMPACT, all answered: the
\* journal has one SET and one DEL, so the third was a DEL of an absent key
C21_Witness ==
    /\ calls = 3
    /\ ~hist.compacted
    /\ hist.get.by = NoThread
    /\ \A t \in Conns : pc[t] = "recv"
    /\ \E v \in Values :
           WalLines \o journal_buf = <<SetLine("k1", v, 0), DelLine("k1")>>
    /\ Memory = EmptyMap

\* the ids of the commands of a batch, in the order of the buffer
IdsOf(batch) == [i \in DOMAIN batch |-> batch[i].id]

\* every batched write, in the order add_to_batch put it in the buffer:
\* the applied ones, then those of the batches being drained, then the
\* waiting ones
BufferOrder ==
    applied \o IdsOf(batch_to_flush["bt"]) \o IdsOf(batch_to_flush["sd"])
        \o IdsOf(current_batch)

IsBatchedWrite(e) == e.cmd.type \in {"SET", "DEL"}

\* the command a connection submitted as its n-th write
WriteOf(id) == SelectSeq(log[id.by], IsBatchedWrite)[id.n].cmd

\* the journal records of the shard writes ids, in their order, for a map
\* that held the keys in present before them: a SET has one, a DEL has one
\* when it found its key; the record of a write still inside execute() is
\* not appended yet
RECURSIVE RecordsOf(_, _)
RecordsOf(ids, present) ==
    IF ids = <<>> THEN <<>>
    ELSE LET c == WriteOf(Head(ids))
             line == IF c.type = "SET" THEN <<SetLine(c.key, c.value, c.ttl_seconds)>>
                     ELSE IF c.key \in present THEN <<DelLine(c.key)>>
                     ELSE <<>>
         IN  (IF Executed(Head(ids)) THEN line ELSE <<>>)
                 \o RecordsOf(Tail(ids),
                              IF c.type = "SET" THEN present \cup {c.key}
                              ELSE present \ {c.key})

\* C22: the records appended to the journal are, in this order, the records
\* of the shard writes in the order they were applied, and the shard writes
\* are applied in the order of the commands in the batch buffer (a drain
\* moves the front command of the buffer order to the end of the applied
\* ones, so the buffer order only ever grows at its end)
C22_DrainOrder ==
    /\ [](WalLines \o journal_buf = RecordsOf(applied, {}))
    /\ [][IsPrefix(BufferOrder, BufferOrder')]_vars

\* one drain has applied the writes of two connections and appended a SET
\* and a DEL record
C22_Witness ==
    /\ total_batches = 1
    /\ Len(applied) = 2 /\ applied[1].by # applied[2].by
    /\ Len(journal_buf) = 2
    /\ journal_buf[2] = DelLine("k1")
    /\ \A d \in Drainers : batch_to_flush[d] = <<>>

\* a thread is inside set, del, mget, compact or the flusher's locked block
InOperation(t) ==
    pc[t] \in {"set_append", "del_append", "mget", "c_walk", "c_close",
               "c_swap", "c_rename", "c_reopen", "c_end", "jf_lock"}

\* the next step of a thread inside an operation
ThreadStep(t) ==
    IF t = "jf" THEN flusher_flush /\ UNCHANGED <<calls, batchVars, metricVars>>
    ELSE \/ WriteStep(t)
         \/ CompactStep(t)
         \/ mget_shard(t) /\ UNCHANGED <<calls, batchVars>>

\* C23: the thread holding the journal lock can take its next step (it
\* waits for no shard lock), no thread owns two shard locks, and whenever
\* threads are inside set, del, mget, compact or the flusher at least one of
\* them can take its next step: they never all wait for each other
C23_NoDeadlock ==
    /\ \A t \in Threads : journal_mtx = t => ENABLED ThreadStep(t)
    /\ \A i, j \in ShardIds :
           (i # j /\ shard_mtx[i] # NoThread) => shard_mtx[i] # shard_mtx[j]
    /\ (\E t \in Threads : InOperation(t)) =>
           \E t \in Threads : InOperation(t) /\ ENABLED ThreadStep(t)

\* a compaction holds the journal lock for its swap while a SET that holds
\* a shard lock waits for the journal lock
C23_Witness ==
    \E t, u \in Conns :
        /\ journal_mtx = t /\ pc[t] = "c_rename"
        /\ pc[u] = "set_append" /\ ~ENABLED ThreadStep(u)
        /\ \E i \in ShardIds : shard_mtx[i] = u

\* a thread is inside compact(), between step 1 and step 6
Compacting(t) == InCompact(t) \/ pc[t] = "c_walking"

\* the shard locks a thread owns
LocksOf(t) == {i \in ShardIds : shard_mtx[i] = t}

C25_Original ==
    [][(pc["jf"] = "jf_lock" /\ pc'["jf"] = "jf_sleep" /\ journal_open)
           => ~is_compacting]_vars

\* C26 as stated: a thread touches the journal handle only as the owner of
\* the journal lock, so no thread touches it while another thread owns the
\* lock; here for the is_open() test that set and del make on entry
C26_Original ==
    [][\A t \in Conns :
           (/\ calls' = calls + 1
            /\ \/ \E c \in SetCmds : set_lock(t, c)
               \/ \E c \in DelCmds : del_lock(t, c))
               => journal_mtx \in {NoThread, t}]_vars

\* key k has an entry in its shard whose deadline has passed
Expired(k) ==
    /\ k \in DOMAIN shards[get_shard_index(k)]
    /\ is_expired(shards[get_shard_index(k)][k], now_ms)

\* key k has an entry whose deadline has not passed, or none
LiveValue(k) ==
    IF k \in DOMAIN shards[get_shard_index(k)] /\ ~Expired(k)
    THEN shards[get_shard_index(k)][k].value
    ELSE Nil

\* C27: a get answers (nil) for an expired entry and otherwise the value of
\* the live entry, an mget does so for every key of the shard it visits;
\* after the step the keys seen expired are absent from the shard map, and
\* the journal (buffer, files, paths, handle) is as before the read
C27_ExpiredReads ==
    [][/\ \A t \in Conns : \A c \in GetCmds :
              (calls' = calls + 1 /\ get(t, c)) =>
                  /\ resp'[t] = LiveValue(c.key)
                  /\ Expired(c.key) => c.key \notin DOMAIN Memory'
                  /\ UNCHANGED <<journal_buf, inodes, path, journal_open,
                                 journal_ino>>
       /\ \A t \in Conns :
              (pc[t] = "mget" /\ mget_shard(t)) =>
                  LET keys == cmd[t].keys
                      idx == cmd[t].order[ci[t]]
                      results == IF pc'[t] = "mget" THEN cmd'[t].results
                                 ELSE hist'.mget.res
                  IN  /\ \A i \in DOMAIN keys :
                             get_shard_index(keys[i]) = idx =>
                                 /\ Expired(keys[i]) =>
                                        /\ results[i] = Nil
                                        /\ keys[i] \notin DOMAIN Memory'
                                 /\ results[i] # Nil =>
                                        results[i] = LiveValue(keys[i])
                      /\ pc'[t] # "mget" => resp'[t] = JoinResults(results)
                      /\ UNCHANGED <<journal_buf, inodes, path, journal_open,
                                     journal_ino>>
      ]_vars

\* an MGET has answered (nil) for a key whose SET with EX 1 is in the
\* journal and whose deadline had passed; the key is gone from the map and
\* the other key of the MGET was answered with its value
C27_Witness ==
    /\ hist.mget.by = "c2" /\ pc["c2"] = "recv"
    /\ hist.mget.keys = <<"k2", "k1">>
    /\ hist.mget.res[2] = Nil /\ hist.mget.res[1] # Nil
    /\ hist.last["k1"].isset /\ hist.last["k1"].ttl = 1
    /\ now_ms > hist.last["k1"].at + 1000
    /\ "k1" \notin DOMAIN Memory
    /\ \E v \in Values : \E i \in DOMAIN (WalLines \o journal_buf) :
           (WalLines \o journal_buf)[i] = SetLine("k1", v, 1)

\* the lines a step of thread t adds to its temp_journal
WrittenBy(t) == SubSeq(tmp_buf'[t], Len(tmp_buf[t]) + 1, Len(tmp_buf'[t]))

\* C28 as stated: after compact() has walked a shard, no entry that it
\* found expired remains in that shard's map
C28_Original ==
    [][\A t \in Conns :
           (pc[t] = "c_walk" /\ compact_walk(t)) =>
               \A k \in DOMAIN shards[ci[t]] :
                   is_expired(shards[ci[t]][k], now_ms)
                       => k \notin DOMAIN shards'[ci[t]]]_vars

\* C28 amended: entries observed as expired during compaction are skipped:
\* the walk of a shard writes a SET line for every entry that is not
\* expired and none for an entry that it found expired, and it leaves the
\* shard's map as it found it
C28_CompactionSkips ==
    [][\A t \in Conns :
           (pc[t] = "c_walk" /\ compact_walk(t)) =>
               /\ shards' = shards
               /\ \A k \in DOMAIN shards[ci[t]] :
                      is_expired(shards[ci[t]][k], now_ms)
                          <=> ~\E n \in DOMAIN WrittenBy(t) :
                                  WrittenBy(t)[n][2] = k]_vars

\* a SET with EX and then a COMPACT, both answered: the journal file is
\* the snapshot and has no line, so the walk found the entry expired; the
\* entry is still in the map
C28_Witness ==
    /\ calls = 2 /\ pc["c1"] = "recv"
    /\ hist.compacted
    /\ WalLines \o journal_buf = <<>>
    /\ "k1" \in DOMAIN Memory
    /\ is_expired(Memory["k1"], now_ms)

\* C29: the step in which the constructor's replay completes changes the
\* shard maps only: the journal (file, path, handle, buffer) and the
\* batcher's buffers are as before; the map it leaves is the replay of the
\* file, and replaying the same file once more on top of that map, at the
\* same clock, gives the same map again
C29_ReplayFrame ==
    [][(pc["jf"] = "boot" /\ pc'["jf"] = "jf_sleep") =>
           /\ UNCHANGED <<journal_buf, inodes, path, journal_open,
                          journal_ino, current_batch, batch_to_flush>>
           /\ Memory' = load_from_disk(WalLines, now_ms)
           /\ ReplayFrom(Memory', WalLines, now_ms) = Memory'
      ]_vars

\* the replay of a journal of three records, a DEL among them, has left
\* entries in both shards
C29_Witness ==
    /\ pc["jf"] = "jf_sleep" /\ calls = 0
    /\ Len(WalLines) = 3
    /\ \E i \in DOMAIN WalLines : WalLines[i] = <<"DEL", "k1">>
    /\ DOMAIN Memory = {"k1", "k2"}
    /\ journal_buf = <<>>

\* C30 as stated: every SET and DEL was applied and appended, some of them
\* while the compaction ran; once the compaction has completed and every
\* record is flushed, the replay of the journal file yields the key ->
\* value mapping in memory
C30_Original ==
    (/\ JournalQuiet
     /\ hist.compacted /\ ~is_compacting
     /\ \A t \in Conns : pc[t] = "recv")
        => ValuesOf(load_from_disk(WalLines, now_ms)) = ValuesOf(Memory)

\* C31 as stated: parsing the journal line that a set(key, value, ttl)
\* wrote yields the same key, the same value and the same ttl
C31_Original ==
    (log["c1"] # <<>> /\ journal_buf # <<>>) =>
        parse_set_text(journal_buf[1]) = log["c1"][1].cmd

\* the positions of a thread inside get()
GetPcs == {"get_find", "get_time", "rec_bucket", "rec_sample"}

\* the three request counters
Counters(m) == <<m.total_requests, m.cache_hits, m.cache_misses>>

\* C32: cache_hits + cache_misses <= total_requests in every state, with
\* equality when no thread is inside get; a get adds one to total_requests
\* and one to exactly one of cache_hits and cache_misses; mget leaves the
\* three counters alone and records one latency sample when it returns
C32_Counters ==
    /\ [](/\ metrics.cache_hits + metrics.cache_misses <= metrics.total_requests
          /\ (\A t \in Conns : pc[t] \notin GetPcs) =>
                 metrics.cache_hits + metrics.cache_misses
                     = metrics.total_requests)
    /\ [][\A t \in Conns :
            /\ (pc[t] = "recv" /\ pc'[t] = "get_find") =>
                   Counters(metrics') =
                       <<metrics.total_requests + 1, metrics.cache_hits,
                         metrics.cache_misses>>
            /\ (pc[t] = "get_find" /\ pc'[t] = "get_time") =>
                   /\ metrics'.total_requests = metrics.total_requests
                   /\ <<metrics'.cache_hits, metrics'.cache_misses>> \in
                          {<<metrics.cache_hits + 1, metrics.cache_misses>>,
                           <<metrics.cache_hits, metrics.cache_misses + 1>>}
            /\ (pc[t] \in GetPcs \ {"get_find"} /\ pc'[t] # pc[t]) =>
                   Counters(metrics') = Counters(metrics)
            /\ (\/ pc[t] = "recv" /\ pc'[t] = "mget"
                \/ pc[t] = "mget" /\ ci'[t] # ci[t]) =>
                   /\ Counters(metrics') = Counters(metrics)
                   /\ SumOf(metrics'.buckets) =
                          SumOf(metrics.buckets)
                              + (IF pc[t] = "mget" /\ pc'[t] = "recv"
                                 THEN 1 ELSE 0)]_vars

\* a hit, a miss and an mget have returned and no get is in progress
C32_Witness ==
    /\ metrics.cache_hits >= 1 /\ metrics.cache_misses >= 1
    /\ hist.mget.by # NoThread
    /\ \A t \in Conns : pc[t] = "recv"
    /\ SumOf(metrics.buckets) = metrics.total_requests + 1

\* the number of times id occurs in the sequence ids
Occurrences(ids, id) == Cardinality({i \in DOMAIN ids : ids[i] = id})

\* a command no thread will apply any more: the process has terminated, or
\* the command waits in current_batch_ while the owner of batch_mtx_ blocks
\* for ever
Dropped(id) ==
    /\ Occurrences(applied, id) = 0
    /\ \/ \E t \in Threads : pc[t] = "dead"
       \/ /\ \E t \in Conns : pc[t] = "hung"
          /\ Occurrences(IdsOf(current_batch), id) = 1

\* C33 as stated: every command add_to_batch has accepted is applied exactly
\* once, never dropped and never applied twice; total_batched_writes is the
\* number of commands drained and total_batches the number of non-empty
\* drains
C33_Original ==
    /\ [](\A t \in Conns : \A n \in 1 .. sub[t] :
              LET id == [by |-> t, n |-> n]
              IN  /\ Occurrences(BufferOrder, id) = 1
                  /\ ~Dropped(id))
    /\ [](total_batched_writes =
              Len(applied) + Len(batch_to_flush["bt"])
                  + Len(batch_to_flush["sd"]))
    /\ [][total_batches' = total_batches +
              (IF \E d \in Drainers :
                      batch_to_flush[d] = <<>> /\ batch_to_flush'[d] # <<>>
               THEN 1 ELSE 0)]_vars

\* C34 as stated: once a GET of k has answered (nil) for an entry whose
\* deadline had passed, every GET of k answers (nil) until a SET of k is
\* applied, a stop and start of the server in between included
C34_Original ==
    [][\A c \in GetCmds :
           (/\ calls' = calls + 1
            /\ hist.get.key = c.key /\ hist.get.res = Nil
            /\ hist.get.last.isset /\ hist.get.last.ttl > 0
            /\ hist.last[c.key] = hist.get.last
            /\ get("c1", c)) =>
               resp'["c1"] = Nil]_vars

\* the sockets of the pops, in order
RECURSIVE SocketsOf(_)
SocketsOf(pops) ==
    IF pops = <<>> THEN <<>>
    ELSE <<Head(pops).socket>> \o SocketsOf(Tail(pops))

\* a worker that is not running handler_ and has not returned
Idle(w) == wpc[w] \in {"w_lock", "w_locked", "w_wait"}

\* C35: the sockets pushed before stop are popped in the order of their
\* enqueue, each once and by one worker, which then serves it; while the
\* queue is non-empty and a worker is idle, some worker pops in the end; at
\* most num_threads sockets are being served
C35_PoolFifo ==
    /\ [](/\ SocketsOf(phist.popped) \o tasks = phist.pushed
          /\ \A i, j \in DOMAIN phist.popped :
                 i # j => phist.popped[i].socket # phist.popped[j].socket
          /\ \A w \in Workers :
                 wpc[w] = "w_handle" =>
                     /\ serving[w] # 0
                     /\ \E i \in DOMAIN phist.popped :
                            phist.popped[i] = [socket |-> serving[w], by |-> w]
                     /\ \A v \in Workers \ {w} : serving[v] # serving[w]
          /\ Len(phist.popped) - phist.handled <= num_threads)
    /\ \A n \in 0 .. MaxSockets :
           (tasks # <<>> /\ Len(phist.popped) = n /\ \E w \in Workers : Idle(w))
               ~> (Len(phist.popped) > n)

\* every socket offered has been popped, in the order of the pushes and by
\* more than one worker; the pool is stopped and every worker has returned
C35_Witness ==
    /\ Len(phist.popped) = MaxSockets
    /\ SocketsOf(phist.popped) = phist.pushed
    /\ \E i, j \in DOMAIN phist.popped : phist.popped[i].by # phist.popped[j].by
    /\ stop /\ \A w \in Workers : wpc[w] = "w_exit"

\* C36 as stated: once running_ is false the timer thread exits and
\* ~WriteBatcher's join returns, the journal flusher exits and ~Impl's join
\* returns, whatever the worker threads were doing, and the shutdown ends
\* with the journal closed, unless the process has terminated before; the
\* journal is closed with nothing left in its buffer
C36_Original ==
    /\ (pc["sd"] = "join") ~>
           (pc["sd"] = "dead" \/ (pc["bt"] = "exit" /\ pc["sd"] # "join"))
    /\ (pc["sd"] = "impl_join") ~>
           (pc["sd"] = "dead" \/ (pc["jf"] = "exit" /\ pc["sd"] # "impl_join"))
    /\ (pc["sd"] = "join") ~> (pc["sd"] \in {"closed", "dead"})
    /\ [][(journal_open /\ ~journal_open') =>
              (journal_buf = <<>> /\ UNCHANGED inodes)]_vars
====
